---- MODULE Spec2Model ----
(***************************************************************************)
(* Repeat-Sales Aggregation Index (RSAI): a model of the algorithmic core  *)
(* of impl-pandas/rsai/src: supertract generation, weighting, BMN          *)
(* regression bookkeeping, city-level aggregation and index chaining.      *)
(*                                                                         *)
(* Each component has its own specification (SpecST, ...) over the shared  *)
(* variables; the variables of the other components stay at their idle     *)
(* values.                                                                 *)
(***************************************************************************)
EXTENDS Integers, Sequences, FiniteSets, TLC

VARIABLES
    \* ---- SupertractGenerator (geography/supertract.py) ----
    geographic_df,       \* tract -> [cbsa_id, centroid_lat, centroid_lon]; rows in tract order
    distance_calc,       \* "built", or "none" when self.distance_calc is None
    min_half_pairs,      \* self.min_half_pairs
    repeat_sales_df,     \* sequence of repeat-sale pairs
    year,                \* argument of generate_supertracts_for_year
    cbsa_id,             \* argument of generate_supertracts_for_year
    st_pc,               \* position in generate_supertracts_for_year
    supertracts,         \* sequence of component lists; entry k has id ..._ST{k-1:04d}
    processed_tracts,    \* set of tracts
    unprocessed,         \* list of tracts
    current_supertract,  \* list of tracts
    emit_left,           \* history: per emitted supertract, the unprocessed tracts left when it was emitted
    merge_steps,         \* history: number of merges performed
    supertract_counter,  \* supertract_counter of generate_supertracts_for_year
    supertract_ids,      \* the keys of the supertracts dict, in insertion order
    \* ---- SupertractGenerator.generate_all_supertracts ----
    all_supertracts,     \* the rows collected so far
    ga_calls,            \* the (cbsa_id, year) iterations still to run, cbsa-major
    ga_pc,               \* position in generate_all_supertracts
    \* ---- GeographicDistanceCalculator (geography/distance.py) ----
    nn_ret,              \* the last get_nearest_neighbor call and what it returned
    \* ---- WeightCalculator (index/weights.py) ----
    supertract_data,     \* supertract definitions: rows [supertract_id, year, cbsa_id, component_tracts, half_pairs_count]
    weighting_data,      \* NoTable or Table of rows [census_tract_2010, year, total_housing_units, ...]
    w_call,              \* the last calculate_weights call: [scheme_name, year], or "none"
    w_result,            \* what it returned: [status, weights], weights a list of [supertract_id, weight]
    \* ---- IndexChainer (output/export.py) ----
    appreciation_df,     \* set of rows [cbsa_id, year, weighting_scheme, appreciation_rate]
    ctor_base_year,      \* the base_year argument the chainer was constructed with
    base_value,          \* self.base_value
    base_year,           \* self.base_year
    chained_indices,     \* self.chained_indices: key -> index series (<<>> when not stored)
    ch_last,             \* the return value of the last chain_appreciation_rates / chain_all_indices call
    \* ---- BMNRegression (index/bmn_regression.py) ----
    results,             \* self.results: [is_none, params]
    time_periods,        \* self.time_periods: [is_none, years]
    base_period,         \* self.base_period: an optional year
    bmn_last,            \* the last call on the object: [op, status]
    sup_ret,             \* the last run_bmn_for_supertract call: [status, tracts, year, appreciation_rate, coef_t]
    \* ---- CityLevelAggregator (index/aggregation.py) ----
    supertracts_df,      \* supertract definitions of all years, as generate_all_supertracts builds them
    weighting_schemes,   \* the weighting_schemes argument: [is_none, list]
    supertract_results,  \* self.supertract_results: year -> frame, [stored |-> FALSE] when absent
    city_results,        \* self.city_results: year -> [stored, schemes -> rows]
    agg_ret              \* the last call on the aggregator and what it returned

stVars == <<geographic_df, distance_calc, min_half_pairs, repeat_sales_df, year,
            cbsa_id, st_pc, supertracts, processed_tracts, unprocessed,
            current_supertract, emit_left, merge_steps, supertract_counter,
            supertract_ids>>

gaVars == <<all_supertracts, ga_calls, ga_pc>>

nnVars == <<nn_ret>>

wVars == <<supertract_data, weighting_data, w_call, w_result>>

chVars == <<appreciation_df, ctor_base_year, base_value, base_year, chained_indices, ch_last>>

bmnVars == <<results, time_periods, base_period, bmn_last, sup_ret>>

aggVars == <<supertracts_df, weighting_schemes, supertract_results, city_results, agg_ret>>

vars == <<stVars, gaVars, nnVars, wVars, chVars, bmnVars, aggVars>>

notST == <<gaVars, nnVars, wVars, chVars, bmnVars, aggVars>>
notW == <<stVars, gaVars, nnVars, chVars, bmnVars, aggVars>>
notCH == <<stVars, gaVars, nnVars, wVars, bmnVars, aggVars>>
\* The regression engine reads repeat_sales_df and nothing else of the other components.
stVarsButSales == <<geographic_df, distance_calc, min_half_pairs, year, cbsa_id, st_pc,
                    supertracts, processed_tracts, unprocessed, current_supertract,
                    emit_left, merge_steps, supertract_counter, supertract_ids>>
notBMN == <<stVarsButSales, gaVars, nnVars, wVars, chVars, aggVars>>
\* The aggregator reads repeat_sales_df and weighting_data.
notAGG == <<stVarsButSales, gaVars, nnVars, supertract_data, w_call, w_result, chVars, bmnVars>>

(***************************************************************************)
(* Bounds and input domains                                                *)
(***************************************************************************)
NumTracts == 3
MaxSales == 3

Tracts == 1..NumTracts
CbsaIds == {"A", "B"}
Lons == 0..2                      \* centroid longitudes, degrees; all centroids on the equator
TargetYears == {2020}
Thresholds == {1, 2}

RECURSIVE SeqSum(_)
SeqSum(s) == IF s = <<>> THEN 0 ELSE Head(s) + SeqSum(Tail(s))

Range(s) == {s[i] : i \in 1..Len(s)}

Abs(x) == IF x < 0 THEN -x ELSE x

\* The k-th smallest element of a finite set of integers.
RECURSIVE KthSmallest(_, _)
KthSmallest(S, k) ==
    LET m == CHOOSE x \in S : \A y \in S : x <= y
    IN IF k = 1 THEN m ELSE KthSmallest(S \ {m}, k - 1)

\* The rows of table u selected by the index set I, in table order.
SelectRows(u, I) == [k \in 1..Cardinality(I) |-> u[KthSmallest(I, k)]]

\* The list left as it is.
ListRemoveNothing(s, x) == s

\* Removes the first occurrence of x from list s (list.remove).
RECURSIVE ListRemove(_, _)
ListRemove(s, x) ==
    IF s = <<>> THEN <<>>
    ELSE IF Head(s) = x THEN Tail(s)
    ELSE <<Head(s)>> \o ListRemove(Tail(s), x)

(***************************************************************************)
(* geography/distance.py                                                   *)
(***************************************************************************)
EarthRadiusKm == 6371

\* haversine_distance for two points of equal latitude 0: a = sin^2(dlon/2),
\* c = 2*asin(sqrt(a)) = |dlon| (radians), so the distance is r*|dlon|.
\* Longitudes are whole degrees; the result is in units of pi/180 km.
haversine_distance(lat1, lon1, lat2, lon2) ==
    EarthRadiusKm * Abs(lon2 - lon1)

\* GeographicDistanceCalculator.get_distance_between_tracts; "ValueError" when
\* a tract is not in the index.
get_distance_between_tracts(geo, tract1, tract2) ==
    IF tract1 \notin DOMAIN geo \/ tract2 \notin DOMAIN geo
    THEN "ValueError"
    ELSE haversine_distance(geo[tract1].centroid_lat, geo[tract1].centroid_lon,
                            geo[tract2].centroid_lat, geo[tract2].centroid_lon)

(***************************************************************************)
(* geography/supertract.py                                                 *)
(***************************************************************************)
\* df[df['cbsa_id'] == cbsa]
FilterCbsaSales(sales, cbsa) == SelectSeq(sales, LAMBDA r : r.cbsa_id = cbsa)

\* The census_tract_2010 column of geographic_df[geographic_df['cbsa_id'] == cbsa],
\* in row order.
RECURSIVE CbsaTractsFrom(_, _, _)
CbsaTractsFrom(geo, cbsa, t) ==
    IF t \notin DOMAIN geo THEN <<>>
    ELSE (IF geo[t].cbsa_id = cbsa THEN <<t>> ELSE <<>>) \o CbsaTractsFrom(geo, cbsa, t + 1)

CbsaTracts(geo, cbsa) == CbsaTractsFrom(geo, cbsa, 1)

\* The count with a pair sold twice in the year counted once.
calculate_half_pairs_EitherSale(sales, y, tract) ==
    Len(SelectSeq(sales, LAMBDA r : /\ r.census_tract_2010 = tract
                                    /\ (r.first_year = y \/ r.second_year = y)))

\* SupertractGenerator.calculate_half_pairs
calculate_half_pairs(sales, y, tract) ==
    LET tract_sales == SelectSeq(sales, LAMBDA r : r.census_tract_2010 = tract)
        first_sale_count == Len(SelectSeq(tract_sales, LAMBDA r : r.first_year = y))
        second_sale_count == Len(SelectSeq(tract_sales, LAMBDA r : r.second_year = y))
    IN first_sale_count + second_sale_count

\* SupertractGenerator.calculate_half_pairs_multi
calculate_half_pairs_multi(sales, y, tracts) ==
    LET tract_sales == SelectSeq(sales, LAMBDA r : r.census_tract_2010 \in Range(tracts))
        first_sale_count == Len(SelectSeq(tract_sales, LAMBDA r : r.first_year = y))
        second_sale_count == Len(SelectSeq(tract_sales, LAMBDA r : r.second_year = y))
    IN first_sale_count + second_sale_count

\* meets_threshold of the first loop of generate_supertracts_for_year
MeetsThreshold(sales, y, tract, minhp) ==
    /\ calculate_half_pairs(sales, y, tract) >= minhp
    /\ calculate_half_pairs(sales, y - 1, tract) >= minhp

\* The threshold test with the previous year's count dropped.
ClusterMeetsThresholdThisYear(sales, y, cluster, minhp) ==
    calculate_half_pairs_multi(sales, y, cluster) >= minhp

\* The threshold test of the merge loop
ClusterMeetsThreshold(sales, y, cluster, minhp) ==
    /\ calculate_half_pairs_multi(sales, y, cluster) >= minhp
    /\ calculate_half_pairs_multi(sales, y - 1, cluster) >= minhp

\* The neighbor search finding no tract to offer.
AvailableTractsNoneLeft(geo, cbsa, processed) == {}

\* available_tracts without the subtraction of the processed tracts.
AvailableTractsWithProcessed(geo, cbsa, processed) == Range(CbsaTracts(geo, cbsa))

\* available_tracts of _find_nearest_unprocessed_neighbor
AvailableTracts(geo, cbsa, processed) == Range(CbsaTracts(geo, cbsa)) \ processed

\* The minimum over all (cluster member, available tract) pairs of the distance.
MinClusterDistance(geo, cluster, available) ==
    LET ds == {get_distance_between_tracts(geo, cluster[i], c) :
                  i \in 1..Len(cluster), c \in available}
    IN CHOOSE d \in ds : \A e \in ds : d <= e

\* The scan without the distance comparison: any available tract is returned.
NearestCandidatesAny(geo, cluster, available) == available

\* _find_nearest_unprocessed_neighbor: the candidates the scan can return.  The
\* scan keeps the first pair with the strictly smallest distance, members in
\* list order, candidates in the iteration order of a Python set, which is
\* not fixed: every candidate at the minimum distance from the first member
\* that attains the minimum can be the one returned.
NearestCandidates(geo, cluster, available) ==
    LET m == MinClusterDistance(geo, cluster, available)
        attains(i) == \E c \in available : get_distance_between_tracts(geo, cluster[i], c) = m
        first == CHOOSE i \in 1..Len(cluster) :
                    attains(i) /\ \A j \in 1..(i - 1) : ~attains(j)
    IN {c \in available : get_distance_between_tracts(geo, cluster[first], c) = m}

\* The first pass stopping after the first tract that meets the threshold.
FirstPassFirstOnly(sales, y, tract_list, minhp) ==
    LET meeting == SelectSeq(tract_list, LAMBDA t : MeetsThreshold(sales, y, t, minhp))
    IN IF meeting = <<>> THEN <<>> ELSE <<<<meeting[1]>>>>

\* The first pass left out: no tract is emitted before the merge loop.
FirstPassNone(sales, y, tract_list, minhp) == <<>>

\* First pass (lines 153-164): the tracts that meet the threshold on their own,
\* in row order, each a supertract of its own.
FirstPass(sales, y, tract_list, minhp) ==
    LET meeting == SelectSeq(tract_list, LAMBDA t : MeetsThreshold(sales, y, t, minhp))
    IN [k \in 1..Len(meeting) |-> <<meeting[k]>>]

\* The characters of str(n) for a natural number n.
DigitChar(d) == <<"0", "1", "2", "3", "4", "5", "6", "7", "8", "9">>[d + 1]

RECURSIVE DecimalChars(_)
DecimalChars(n) ==
    IF n < 10 THEN <<DigitChar(n)>> ELSE DecimalChars(n \div 10) \o <<DigitChar(n % 10)>>

\* format(n, "04d"): the decimal digits, padded with zeros on the left to a
\* width of at least four characters.
Format04d(n) ==
    LET d == DecimalChars(n)
    IN IF Len(d) >= 4 THEN d ELSE [k \in 1..(4 - Len(d)) |-> "0"] \o d

\* The id with the sequence number left at zero.
SupertractIdNoSequence(cbsa, y, counter) ==
    <<cbsa, "_">> \o DecimalChars(y) \o <<"_", "S", "T">> \o Format04d(0)

\* Lines 161 and 209: f"{cbsa_id}_{year}_ST{supertract_counter:04d}", as the
\* list of its characters; a metro id is one character.
SupertractId(cbsa, y, counter) ==
    <<cbsa, "_">> \o DecimalChars(y) \o <<"_", "S", "T">> \o Format04d(counter)

\* supertracts[supertract_id] = value on a dict held as a key list and a value
\* list in insertion order: a new key is appended, an existing key keeps its
\* place and gets the new value.
DictHas(keys, id) == \E k \in 1..Len(keys) : keys[k] = id

DictKeysPut(keys, id) == IF DictHas(keys, id) THEN keys ELSE Append(keys, id)

DictValuesPut(keys, vals, id, v) ==
    IF DictHas(keys, id)
    THEN [k \in 1..Len(vals) |-> IF keys[k] = id THEN v ELSE vals[k]]
    ELSE Append(vals, v)

\* The dict and the counter after the first-pass loop over the singletons.
RECURSIVE FirstPassDict(_, _, _, _)
FirstPassDict(singles, cbsa, y, d) ==
    IF singles = <<>> THEN d
    ELSE CHOOSE r \in {FirstPassDict(Tail(singles), cbsa, y,
                          [keys |-> DictKeysPut(d.keys, id),
                           vals |-> DictValuesPut(d.keys, d.vals, id, Head(singles)),
                           counter |-> d.counter + 1]) :
                      id \in {SupertractId(cbsa, y, d.counter)}} : TRUE

\* An optional table argument: None, or the table's rows.
NoTable == [is_none |-> TRUE, rows |-> <<>>]
Table(rows) == [is_none |-> FALSE, rows |-> rows]

\* The idle values of the generator's variables.
STIdle ==
    /\ geographic_df = <<>>
    /\ distance_calc = "none"
    /\ min_half_pairs = 0
    /\ repeat_sales_df = <<>>
    /\ year = 0
    /\ cbsa_id = "A"
    /\ st_pc = "idle"
    /\ supertracts = <<>>
    /\ processed_tracts = {}
    /\ unprocessed = <<>>
    /\ current_supertract = <<>>
    /\ emit_left = <<>>
    /\ merge_steps = 0
    /\ supertract_counter = 0
    /\ supertract_ids = <<>>
    /\ all_supertracts = <<>>
    /\ ga_calls = <<>>
    /\ ga_pc = "idle"
    /\ nn_ret = [op |-> "none"]

\* The idle values of the weight calculator's variables.
WIdle ==
    /\ supertract_data = <<>>
    /\ weighting_data = NoTable
    /\ w_call = [scheme_name |-> "none", year |-> 0]
    /\ w_result = [status |-> "none"]

\* An optional year argument: None, or the year.
NoYear == [is_none |-> TRUE, value |-> 0]
SomeYear(y) == [is_none |-> FALSE, value |-> y]

\* The idle values of the chainer's variables.
CHIdle ==
    /\ appreciation_df = {}
    /\ ctor_base_year = NoYear
    /\ base_value = 0
    /\ base_year = NoYear
    /\ chained_indices = <<>>
    /\ ch_last = <<>>

\* BMNRegression.__init__, and the idle values of the other regression variables.
NoResults == [is_none |-> TRUE, params |-> <<>>]
NoPeriods == [is_none |-> TRUE, years |-> <<>>]

BMNFresh ==
    /\ results = NoResults
    /\ time_periods = NoPeriods
    /\ base_period = NoYear

BMNIdle ==
    /\ BMNFresh
    /\ bmn_last = [op |-> "none"]
    /\ sup_ret = [status |-> "none"]

\* An optional list argument: None, or the list.
NoList == [is_none |-> TRUE, list |-> <<>>]
SomeList(l) == [is_none |-> FALSE, list |-> l]

\* The years the aggregator is asked about.
AggYears == 2019..2020

\* CityLevelAggregator.__init__: both result dicts empty.
AGGFresh ==
    /\ supertract_results = [y \in AggYears |-> [stored |-> FALSE]]
    /\ city_results = [y \in AggYears |-> [stored |-> FALSE]]
    /\ agg_ret = [op |-> "none"]

AGGIdle ==
    /\ supertracts_df = <<>>
    /\ weighting_schemes = NoList
    /\ AGGFresh

\* Input tables.
SaleKinds == <<[first_year |-> 2019, second_year |-> 2019],
               [first_year |-> 2019, second_year |-> 2020],
               [first_year |-> 2020, second_year |-> 2020]>>

\* Rows of a tract table with centroid columns.  The generator reads the
\* centroids of the tracts of the metro it is called for ("A") only, so the
\* other tracts all sit at longitude 0.
GeoRows ==
    [cbsa_id : {"A"}, centroid_lat : {0}, centroid_lon : Lons]
        \cup [cbsa_id : CbsaIds \ {"A"}, centroid_lat : {0}, centroid_lon : {0}]

\* Rows of a tract table without the centroid columns.
BareRows == [cbsa_id : CbsaIds]

GeographicTables == [Tracts -> GeoRows] \cup [Tracts -> BareRows]

\* SupertractGenerator.__init__, lines 35-39: the distance calculator is built
\* only for a non-empty table that has a centroid_lat column.
InitDistanceCalc(geo) ==
    IF DOMAIN geo # {} /\ \A t \in DOMAIN geo : "centroid_lat" \in DOMAIN geo[t]
    THEN "built" ELSE "none"

\* All candidate sale rows for a geography, tract-major.
SaleUniverse(geo) ==
    [k \in 1..(NumTracts * Len(SaleKinds)) |->
        LET t == ((k - 1) \div Len(SaleKinds)) + 1
            kind == SaleKinds[((k - 1) % Len(SaleKinds)) + 1]
        IN [census_tract_2010 |-> t, cbsa_id |-> geo[t].cbsa_id,
            first_year |-> kind.first_year, second_year |-> kind.second_year]]

SalesTables(geo) ==
    {SelectRows(SaleUniverse(geo), I) :
        I \in {J \in SUBSET (1..(NumTracts * Len(SaleKinds))) : Cardinality(J) <= MaxSales}}

STInit ==
    /\ geographic_df \in GeographicTables
    /\ distance_calc = InitDistanceCalc(geographic_df)
    /\ min_half_pairs \in Thresholds
    /\ repeat_sales_df \in SalesTables(geographic_df)
    /\ year \in TargetYears
    /\ cbsa_id = "A"
    /\ st_pc = "start"
    /\ supertracts = <<>>
    /\ processed_tracts = {}
    /\ unprocessed = <<>>
    /\ current_supertract = <<>>
    /\ emit_left = <<>>
    /\ merge_steps = 0
    /\ supertract_counter = 0
    /\ supertract_ids = <<>>
    /\ all_supertracts = <<>>
    /\ ga_calls = <<>>
    /\ ga_pc = "idle"
    /\ nn_ret = [op |-> "none"]
    /\ WIdle
    /\ CHIdle
    /\ BMNIdle
    /\ AGGIdle

\* generate_supertracts_for_year, lines 131-167: filter, half-pairs, first pass.
STBegin ==
    /\ UNCHANGED notST
    /\ st_pc = "start"
    /\ LET cbsa_sales == FilterCbsaSales(repeat_sales_df, cbsa_id)
           tract_list == CbsaTracts(geographic_df, cbsa_id)
           singles == FirstPass(cbsa_sales, year, tract_list, min_half_pairs)
           done == {s[1] : s \in Range(singles)}
       IN /\ \E d \in {FirstPassDict(singles, cbsa_id, year,
                                     [keys |-> <<>>, vals |-> <<>>, counter |-> 0])} :
               /\ supertracts' = d.vals
               /\ supertract_ids' = d.keys
               /\ supertract_counter' = d.counter
          /\ processed_tracts' = done
          /\ unprocessed' = SelectSeq(tract_list, LAMBDA t : t \notin done)
          /\ emit_left' = [k \in 1..Len(singles) |->
                              Range(tract_list) \ {singles[j][1] : j \in 1..k}]
    /\ st_pc' = "outer"
    /\ UNCHANGED <<geographic_df, distance_calc, min_half_pairs, repeat_sales_df,
                   year, cbsa_id, current_supertract, merge_steps>>

\* Lines 169-174: start a cluster with the first unprocessed tract.
STStartCluster ==
    /\ UNCHANGED notST
    /\ st_pc = "outer"
    /\ unprocessed # <<>>
    /\ current_supertract' = <<Head(unprocessed)>>
    /\ processed_tracts' = processed_tracts \cup {Head(unprocessed)}
    /\ unprocessed' = ListRemove(unprocessed, Head(unprocessed))
    /\ st_pc' = "inner"
    /\ UNCHANGED <<geographic_df, distance_calc, min_half_pairs, repeat_sales_df,
                   year, cbsa_id, supertracts, emit_left, merge_steps,
                   supertract_counter, supertract_ids>>

\* Lines 208-211: save the supertract.
SaveSupertract ==
    /\ \E id \in {SupertractId(cbsa_id, year, supertract_counter)} :
         /\ supertract_ids' = DictKeysPut(supertract_ids, id)
         /\ supertracts' = DictValuesPut(supertract_ids, supertracts, id, current_supertract)
    /\ supertract_counter' = supertract_counter + 1
    /\ emit_left' = Append(emit_left,
                           AvailableTracts(geographic_df, cbsa_id, processed_tracts))
    /\ st_pc' = "outer"
    /\ UNCHANGED <<processed_tracts, unprocessed, current_supertract, merge_steps>>

\* One pass of the merge loop, lines 177-206, with the save that follows a break.
STMergeStep ==
    /\ UNCHANGED notST
    /\ st_pc = "inner"
    /\ LET cbsa_sales == FilterCbsaSales(repeat_sales_df, cbsa_id)
           available == AvailableTracts(geographic_df, cbsa_id, processed_tracts)
       IN IF ClusterMeetsThreshold(cbsa_sales, year, current_supertract, min_half_pairs)
          THEN SaveSupertract
          ELSE IF available = {}
          THEN SaveSupertract     \* nearest_neighbor is None: accept as is
          ELSE IF distance_calc = "none"
          THEN \* self.distance_calc.get_distance_between_tracts on None: AttributeError
               /\ st_pc' = "raised"
               /\ UNCHANGED <<supertracts, processed_tracts, unprocessed,
                              current_supertract, emit_left, merge_steps,
                              supertract_counter, supertract_ids>>
          ELSE \E nearest_neighbor \in
                      NearestCandidates(geographic_df, current_supertract, available) :
               /\ current_supertract' = Append(current_supertract, nearest_neighbor)
               /\ processed_tracts' = processed_tracts \cup {nearest_neighbor}
               /\ unprocessed' = ListRemove(unprocessed, nearest_neighbor)
               /\ merge_steps' = merge_steps + 1
               /\ st_pc' = "inner"
               /\ UNCHANGED <<supertracts, emit_left, supertract_counter, supertract_ids>>
    /\ UNCHANGED <<geographic_df, distance_calc, min_half_pairs, repeat_sales_df,
                   year, cbsa_id>>

\* Lines 213-214: return supertracts.
STReturn ==
    /\ UNCHANGED notST
    /\ st_pc = "outer"
    /\ unprocessed = <<>>
    /\ st_pc' = "done"
    /\ UNCHANGED <<geographic_df, distance_calc, min_half_pairs, repeat_sales_df,
                   year, cbsa_id, supertracts, processed_tracts, unprocessed,
                   current_supertract, emit_left, merge_steps,
                   supertract_counter, supertract_ids>>

STNext == STBegin \/ STStartCluster \/ STMergeStep \/ STReturn

SpecST == STInit /\ [][STNext]_vars

\* The call runs on: a Python loop that can take a step takes it.
SpecSTFair == STInit /\ [][STNext]_vars /\ WF_vars(STNext)

\* A metro of more tracts, few sales: the merge loop grows clusters of several
\* members while several candidates are left.
NumMergeTracts == 4

MGSaleUniverse ==
    [k \in 1..(NumMergeTracts * Len(SaleKinds)) |->
        LET t == ((k - 1) \div Len(SaleKinds)) + 1
            kind == SaleKinds[((k - 1) % Len(SaleKinds)) + 1]
        IN [census_tract_2010 |-> t, cbsa_id |-> "A",
            first_year |-> kind.first_year, second_year |-> kind.second_year]]

MGSalesTables == {<<>>} \cup {<<MGSaleUniverse[k]>> : k \in 1..Len(MGSaleUniverse)}

MGInit ==
    /\ geographic_df \in [1..NumMergeTracts ->
                             [cbsa_id : {"A"}, centroid_lat : {0}, centroid_lon : Lons]]
    /\ distance_calc = InitDistanceCalc(geographic_df)
    /\ min_half_pairs \in Thresholds
    /\ repeat_sales_df \in MGSalesTables
    /\ year \in TargetYears
    /\ cbsa_id = "A"
    /\ st_pc = "start"
    /\ supertracts = <<>>
    /\ processed_tracts = {}
    /\ unprocessed = <<>>
    /\ current_supertract = <<>>
    /\ emit_left = <<>>
    /\ merge_steps = 0
    /\ supertract_counter = 0
    /\ supertract_ids = <<>>
    /\ all_supertracts = <<>>
    /\ ga_calls = <<>>
    /\ ga_pc = "idle"
    /\ nn_ret = [op |-> "none"]
    /\ WIdle
    /\ CHIdle
    /\ BMNIdle
    /\ AGGIdle

SpecMG == MGInit /\ [][STNext]_vars

(***************************************************************************)
(* Rational numbers, [num, den] in lowest terms with den > 0: the model's  *)
(* exact stand-in for the code's floats.                                   *)
(***************************************************************************)
RECURSIVE Gcd(_, _)
Gcd(a, b) == IF b = 0 THEN a ELSE Gcd(b, a % b)

Rat(n, d) ==
    LET g == Gcd(Abs(n), Abs(d))
        sgn == IF d < 0 THEN -1 ELSE 1
    IN [num |-> sgn * (n \div g), den |-> sgn * (d \div g)]

RatInt(n) == [num |-> n, den |-> 1]
RatAdd(a, b) == Rat(a.num * b.den + b.num * a.den, a.den * b.den)
RatSub(a, b) == Rat(a.num * b.den - b.num * a.den, a.den * b.den)
RatMul(a, b) == Rat(a.num * b.num, a.den * b.den)
RatDiv(a, b) == Rat(a.num * b.den, a.den * b.num)

RECURSIVE RatSeqSum(_)
RatSeqSum(s) == IF s = <<>> THEN RatInt(0) ELSE RatAdd(Head(s), RatSeqSum(Tail(s)))

(***************************************************************************)
(* index/weights.py                                                        *)
(***************************************************************************)
SchemeNames == {"sample", "value", "unit", "upb", "college", "non_white"}

DemographicYear == 2010

\* normalize_weights with a zero-sum fallback that gives the first supertract
\* the whole weight.
normalize_weights_FirstTakesAll(weights) ==
    IF Len(weights) = 0 THEN [status |-> "raise", error |-> "ZeroDivisionError"]
    ELSE [status |-> "ok",
          weights |-> [k \in 1..Len(weights) |->
                         [supertract_id |-> weights[k].supertract_id,
                          weight |-> IF SeqSum([n \in 1..Len(weights) |-> weights[n].quantity]) = 0
                                     THEN RatInt(IF k = 1 THEN 1 ELSE 0)
                                     ELSE Rat(weights[k].quantity,
                                              SeqSum([n \in 1..Len(weights) |-> weights[n].quantity]))]]]

\* normalize_weights without the equal-weights fallback: a zero sum leaves
\* the weights at zero.
normalize_weights_NoFallback(weights) ==
    IF Len(weights) = 0 THEN [status |-> "raise", error |-> "ZeroDivisionError"]
    ELSE [status |-> "ok",
          weights |-> [k \in 1..Len(weights) |->
                         [supertract_id |-> weights[k].supertract_id,
                          weight |-> IF SeqSum([n \in 1..Len(weights) |-> weights[n].quantity]) = 0
                                     THEN RatInt(0)
                                     ELSE Rat(weights[k].quantity,
                                              SeqSum([n \in 1..Len(weights) |-> weights[n].quantity]))]]]

\* WeightingScheme.normalize_weights on a list of [supertract_id, quantity]:
\* equal weights when the quantities sum to zero (1.0 / len(weights) divides
\* by zero for an empty list), else quantity / sum.
normalize_weights(weights) ==
    LET weight_sum == SeqSum([k \in 1..Len(weights) |-> weights[k].quantity])
    IN IF weight_sum = 0
       THEN IF Len(weights) = 0
            THEN [status |-> "raise", error |-> "ZeroDivisionError"]
            ELSE [status |-> "ok",
                  weights |-> [k \in 1..Len(weights) |->
                                 [supertract_id |-> weights[k].supertract_id,
                                  weight |-> Rat(1, Len(weights))]]]
       ELSE [status |-> "ok",
             weights |-> [k \in 1..Len(weights) |->
                            [supertract_id |-> weights[k].supertract_id,
                             weight |-> Rat(weights[k].quantity, weight_sum)]]]

\* supertract_data[supertract_data['year'] == year]
YearData(data, y) == SelectSeq(data, LAMBDA r : r.year = y)

\* weighting_df[isin(component_tracts) & (year == y)][column].sum(); a missing
\* value (NaN) is skipped by sum().
ColumnSum(wdf, component_tracts, y, column) ==
    LET rows == SelectSeq(wdf, LAMBDA r : /\ r.census_tract_2010 \in Range(component_tracts)
                                          /\ r.year = y
                                          /\ column \notin r.missing)
    IN SeqSum([k \in 1..Len(rows) |-> rows[k][column]])

\* SampleWeighting.calculate_weights
SampleWeighting(data, y) ==
    LET year_data == YearData(data, y)
    IN normalize_weights([k \in 1..Len(year_data) |->
                             [supertract_id |-> year_data[k].supertract_id,
                              quantity |-> year_data[k].half_pairs_count]])

\* The shared loop with a missing weighting table read as an empty one.
TableWeightingOptional(data, y, wdf, value_year, column) ==
    normalize_weights([k \in 1..Len(YearData(data, y)) |->
        [supertract_id |-> YearData(data, y)[k].supertract_id,
         quantity |-> IF wdf.is_none THEN 0
                      ELSE ColumnSum(wdf.rows, YearData(data, y)[k].component_tracts,
                                     value_year, column)]])

\* The loop shared by the schemes that read the weighting table.
TableWeighting(data, y, wdf, value_year, column) ==
    IF wdf.is_none
    THEN [status |-> "raise", error |-> "ValueError"]
    ELSE LET year_data == YearData(data, y)
         IN normalize_weights([k \in 1..Len(year_data) |->
                [supertract_id |-> year_data[k].supertract_id,
                 quantity |-> ColumnSum(wdf.rows, year_data[k].component_tracts,
                                        value_year, column)]])

\* Value weighting on the values of the target year itself.
ValueWeightingSameYear(data, y, wdf) == TableWeighting(data, y, wdf, y, "total_housing_value")

\* ValueWeighting.calculate_weights: previous year's values.
ValueWeighting(data, y, wdf) == TableWeighting(data, y, wdf, y - 1, "total_housing_value")

\* UnitWeighting.calculate_weights
UnitWeighting(data, y, wdf) == TableWeighting(data, y, wdf, y, "total_housing_units")

\* UPBWeighting.calculate_weights
UPBWeighting(data, y, wdf) == TableWeighting(data, y, wdf, y, "total_upb")

\* DemographicWeighting.calculate_weights: static 2010 data.
DemographicWeighting(data, y, wdf, demographic_column) ==
    TableWeighting(data, y, wdf, DemographicYear, demographic_column)

\* WeightCalculator.calculate_weights
calculate_weights(scheme_name, data, y, wdf) ==
    IF scheme_name \notin SchemeNames
    THEN [status |-> "raise", error |-> "ValueError"]
    ELSE CASE scheme_name = "sample" -> SampleWeighting(data, y)
           [] scheme_name = "value" -> ValueWeighting(data, y, wdf)
           [] scheme_name = "unit" -> UnitWeighting(data, y, wdf)
           [] scheme_name = "upb" -> UPBWeighting(data, y, wdf)
           [] scheme_name = "college" -> DemographicWeighting(data, y, wdf, "college_population")
           [] scheme_name = "non_white" -> DemographicWeighting(data, y, wdf, "non_white_population")

\* ---- inputs of the weight calculator ----
MaxWeightingRows == 2
HalfPairCounts == {0, 1}
WYears == {2010, 2019, 2020}

\* The column values a weighting-table row can carry; the second kind of row
\* has no total_upb (NaN).
WeightingProfiles ==
    {[total_housing_units |-> 1, total_housing_value |-> 2, total_upb |-> 3,
      college_population |-> 2, non_white_population |-> 1],
     [total_housing_units |-> 0, total_housing_value |-> 1, total_upb |-> 0,
      college_population |-> 0, non_white_population |-> 3]}

WeightingRowList ==
    LET profs == <<CHOOSE p \in WeightingProfiles : p.total_housing_units = 1,
                   CHOOSE p \in WeightingProfiles : p.total_housing_units = 0>>
        ys == <<2010, 2019, 2020>>
    IN [k \in 1..(NumTracts * 3 * 2) |->
          LET t == ((k - 1) \div 6) + 1
              y == ys[(((k - 1) \div 2) % 3) + 1]
              p == profs[((k - 1) % 2) + 1]
          IN [census_tract_2010 |-> t, year |-> y,
              total_housing_units |-> p.total_housing_units,
              total_housing_value |-> p.total_housing_value,
              total_upb |-> p.total_upb,
              college_population |-> p.college_population,
              non_white_population |-> p.non_white_population,
              missing |-> IF p.total_housing_units = 0 THEN {"total_upb"} ELSE {}]]

WeightingTables ==
    {SelectRows(WeightingRowList, I) :
        I \in {J \in SUBSET (1..Len(WeightingRowList)) : Cardinality(J) <= MaxWeightingRows}}

\* The ways to cut the tract list 1..NumTracts into consecutive component lists.
RECURSIVE Compositions(_)
Compositions(first) ==
    IF first > NumTracts THEN {<<>>}
    ELSE UNION {{<<[i \in 1..(last - first + 1) |-> first + i - 1]>> \o rest :
                    rest \in Compositions(last + 1)} : last \in first..NumTracts}

\* Supertract tables of one (metro, year): ids 1..n in emission order.
SupertractTables(y, cbsa) ==
    UNION {{[k \in 1..Len(comp) |->
                [supertract_id |-> k, year |-> y, cbsa_id |-> cbsa,
                 component_tracts |-> comp[k], half_pairs_count |-> hp[k]]] :
              hp \in [1..Len(comp) -> HalfPairCounts]} : comp \in Compositions(1)}

WInit ==
    /\ supertract_data \in SupertractTables(2020, "A")
    /\ weighting_data \in {Table(rows) : rows \in WeightingTables} \cup {NoTable}
    /\ w_call = [scheme_name |-> "none", year |-> 0]
    /\ w_result = [status |-> "none"]
    /\ STIdle
    /\ CHIdle
    /\ BMNIdle
    /\ AGGIdle

\* A call of WeightCalculator.calculate_weights for the table's year.
WCalculate ==
    /\ w_result.status = "none"
    /\ \E scheme_name \in SchemeNames \cup {"median"} :
         /\ w_call' = [scheme_name |-> scheme_name, year |-> 2020]
         /\ w_result' = calculate_weights(scheme_name, supertract_data, 2020, weighting_data)
    /\ UNCHANGED <<supertract_data, weighting_data>>
    /\ UNCHANGED notW

WNext == WCalculate

SpecW == WInit /\ [][WNext]_vars

(***************************************************************************)
(* output/export.py: IndexChainer                                          *)
(***************************************************************************)
DefaultBaseValue == 100

\* np.exp on an appreciation rate.  Rates are whole multiples of ln 2, so
\* exp(r) is the rational 2^r.
RECURSIVE Pow2(_)
Pow2(n) == IF n = 0 THEN 1 ELSE 2 * Pow2(n - 1)

Exp(r) == IF r >= 0 THEN Rat(Pow2(r), 1) ELSE Rat(1, Pow2(-r))

\* The rows of one (cbsa, scheme), sorted by year (lines 56-59).
RECURSIVE SortByYear(_)
SortByYear(rows) ==
    IF rows = {} THEN <<>>
    ELSE LET r == CHOOSE x \in rows : \A z \in rows : x.year <= z.year
         IN <<r>> \o SortByYear(rows \ {r})

FilteredSeries(df, cbsa, scheme) ==
    SortByYear({r \in df : r.cbsa_id = cbsa /\ r.weighting_scheme = scheme})

\* Forward chaining with the rate of the previous position.
ForwardValueWithPreviousRate(previous_index, appreciation_rates, i) ==
    RatMul(previous_index, Exp(appreciation_rates[i - 1]))

\* Line 83 / 92: index_values[i] = index_values[i-1] * np.exp(appreciation_rates[i])
ForwardValue(previous_index, appreciation_rates, i) ==
    RatMul(previous_index, Exp(appreciation_rates[i]))

\* Line 87: index_values[i] = index_values[i+1] / np.exp(appreciation_rates[i+1])
BackwardValue(next_index, appreciation_rates, i) ==
    RatDiv(next_index, Exp(appreciation_rates[i + 1]))

\* Forward chaining of positions from..n given the values up to from-1.
RECURSIVE ForwardChain(_, _, _)
ForwardChain(index_values, appreciation_rates, i) ==
    IF i > Len(appreciation_rates) THEN index_values
    ELSE ForwardChain([index_values EXCEPT ![i] =
                          ForwardValue(index_values[i - 1], appreciation_rates, i)],
                      appreciation_rates, i + 1)

\* Backward chaining of positions i..1 given the values from i+1 on.
RECURSIVE BackwardChain(_, _, _)
BackwardChain(index_values, appreciation_rates, i) ==
    IF i < 1 THEN index_values
    ELSE BackwardChain([index_values EXCEPT ![i] =
                           BackwardValue(index_values[i + 1], appreciation_rates, i)],
                       appreciation_rates, i - 1)

\* Anchoring at the first position whatever the base year.
AnchorFirst(years, by) == 1

\* Anchoring at the last position when the base year is not among the years.
AnchorLastWhenAbsent(years, by) ==
    IF \E i \in 1..Len(years) : years[i] = by
    THEN CHOOSE i \in 1..Len(years) : years[i] = by /\ \A j \in 1..(i - 1) : years[j] # by
    ELSE Len(years)

\* The position the chain is anchored at (lines 77-90): the first position of
\* the base year when it is among the years, else the first position.
AnchorIndex(years, by) ==
    IF \E i \in 1..Len(years) : years[i] = by
    THEN CHOOSE i \in 1..Len(years) : years[i] = by /\ \A j \in 1..(i - 1) : years[j] # by
    ELSE 1

\* Lines 73-92: the index values of a series, given self.base_year (an int).
IndexValues(years, appreciation_rates, bv, by) ==
    LET zeros == [i \in 1..Len(years) |-> RatInt(0)]
        base_idx == AnchorIndex(years, by)
        anchored == [zeros EXCEPT ![base_idx] = RatInt(bv)]
    IN BackwardChain(ForwardChain(anchored, appreciation_rates, base_idx + 1),
                     appreciation_rates, base_idx - 1)

\* self.base_year after lines 70-71.
EffectiveBaseYear(by, years) == IF by.is_none THEN SomeYear(years[1]) ELSE by

\* The result frame of chain_appreciation_rates for a non-empty series.
ChainResult(filtered, bv, by) ==
    LET years == [i \in 1..Len(filtered) |-> filtered[i].year]
        rates == [i \in 1..Len(filtered) |-> filtered[i].appreciation_rate]
        values == IndexValues(years, rates, bv, EffectiveBaseYear(by, years).value)
    IN [i \in 1..Len(filtered) |->
          [year |-> years[i], index_value |-> values[i],
           appreciation_rate |-> rates[i],
           cbsa_id |-> filtered[i].cbsa_id,
           weighting_scheme |-> filtered[i].weighting_scheme]]

\* chain_appreciation_rates as a function of the chainer's state: the new
\* [base_year, chained_indices] and the frame returned.
ChainCall(df, key, bv, by, stored) ==
    LET filtered == FilteredSeries(df, key[1], key[2])
    IN IF filtered = <<>>
       THEN [base_year |-> by, chained_indices |-> stored, result |-> <<>>]
       ELSE LET result == ChainResult(filtered, bv, by)
            IN [base_year |-> EffectiveBaseYear(by, [i \in 1..Len(filtered) |-> filtered[i].year]),
                chained_indices |-> [stored EXCEPT ![key] = result],
                result |-> result]

\* The (cbsa_id, weighting_scheme) groups of a table in groupby order.
ChainKeyOrder == <<<<"A", "sample">>, <<"B", "sample">>>>
ChainKeys == Range(ChainKeyOrder)

GroupKeys(df) ==
    SelectSeq(ChainKeyOrder,
              LAMBDA k : \E r \in df : r.cbsa_id = k[1] /\ r.weighting_scheme = k[2])

\* chain_all_indices: the loop of lines 128-133 over the remaining keys.
RECURSIVE ChainAllFrom(_, _, _, _, _, _)
ChainAllFrom(df, keys, bv, by, stored, acc) ==
    IF keys = <<>>
    THEN [base_year |-> by, chained_indices |-> stored, result |-> acc]
    ELSE LET one == ChainCall(df, Head(keys), bv, by, stored)
         IN ChainAllFrom(df, Tail(keys), bv, one.base_year, one.chained_indices,
                         acc \o one.result)

\* ---- inputs of the chainer ----
NumChainYears == 3
ChainYears == 2018..(2017 + NumChainYears)
ChainRates == {0, 1}
BaseYearChoices == {NoYear} \cup {SomeYear(y) : y \in 2018..(2018 + NumChainYears)}

\* The appreciation series a key can have: a rate for each year of a set of years.
KeySeries(key) ==
    UNION {{{[cbsa_id |-> key[1], year |-> y, weighting_scheme |-> key[2],
              appreciation_rate |-> f[y]] : y \in ys} : f \in [ys -> ChainRates]} :
           ys \in SUBSET ChainYears}

CHInit ==
    /\ \E a \in KeySeries(<<"A", "sample">>), b \in KeySeries(<<"B", "sample">>) :
          appreciation_df = a \cup b
    /\ ctor_base_year \in BaseYearChoices
    /\ base_value = DefaultBaseValue
    /\ base_year = ctor_base_year         \* IndexChainer.__init__
    /\ chained_indices = [k \in ChainKeys |-> <<>>]
    /\ ch_last = <<>>
    /\ STIdle
    /\ WIdle
    /\ BMNIdle
    /\ AGGIdle

\* A call of chain_appreciation_rates(appreciation_df, cbsa_id, weighting_scheme).
CHChainAppreciationRates ==
    /\ \E key \in ChainKeys :
         LET out == ChainCall(appreciation_df, key, base_value, base_year, chained_indices)
         IN /\ base_year' = out.base_year
            /\ chained_indices' = out.chained_indices
            /\ ch_last' = out.result
    /\ UNCHANGED <<appreciation_df, ctor_base_year, base_value>>
    /\ UNCHANGED notCH

\* A call of chain_all_indices(appreciation_df).
CHChainAllIndices ==
    /\ LET out == ChainAllFrom(appreciation_df, GroupKeys(appreciation_df), base_value,
                               base_year, chained_indices, <<>>)
       IN /\ base_year' = out.base_year
          /\ chained_indices' = out.chained_indices
          /\ ch_last' = out.result
    /\ UNCHANGED <<appreciation_df, ctor_base_year, base_value>>
    /\ UNCHANGED notCH

CHNext == CHChainAppreciationRates \/ CHChainAllIndices

SpecCH == CHInit /\ [][CHNext]_vars

(***************************************************************************)
(* index/bmn_regression.py                                                 *)
(*                                                                         *)
(* A repeat-sale row is [label, census_tract_2010, cbsa_id, first_year,    *)
(* second_year, log_price_relative]; label is the row's index label, its   *)
(* position (from 1) in the table it was first part of, which filtering    *)
(* keeps.  Design-matrix rows and columns are numbered from 1.             *)
(***************************************************************************)
Raise(e) == [status |-> "raise", error |-> e]

MinOf(S) == CHOOSE x \in S : \A z \in S : x <= z
MaxOf(S) == CHOOSE x \in S : \A z \in S : x >= z

\* The loop of lines 71-84 from row k on: X[i, ...] = -1 / 1 with i the row's
\* label; a label beyond the matrix is an IndexError.
RECURSIVE FillDesign(_, _, _, _, _)
FillDesign(X, df, k, start_year, n_years) ==
    IF k > Len(df) THEN [status |-> "ok", X |-> X]
    ELSE LET row == df[k]
             i == row.label
             first_year_idx == row.first_year - start_year
             second_year_idx == row.second_year - start_year
         IN IF first_year_idx < 0 \/ second_year_idx >= n_years
            THEN FillDesign(X, df, k + 1, start_year, n_years)
            ELSE IF (first_year_idx > 0 \/ second_year_idx > 0) /\ i > Len(X)
            THEN Raise("IndexError")
            ELSE LET X1 == IF first_year_idx > 0
                           THEN [X EXCEPT ![i][first_year_idx] = -1] ELSE X
                     X2 == IF second_year_idx > 0
                           THEN [X1 EXCEPT ![i][second_year_idx] = 1] ELSE X1
                 IN FillDesign(X2, df, k + 1, start_year, n_years)

\* BMNRegression.prepare_regression_data.  Returns what the call did:
\* status, the value written to self.base_period (set_base) and to
\* self.time_periods (on success), and X, y, years.
prepare_regression_data(df, start_arg, end_arg) ==
    IF (start_arg.is_none \/ end_arg.is_none) /\ df = <<>>
    THEN \* min()/max() of an empty column is NaN; range(NaN, ...) is a TypeError
         [status |-> "raise", error |-> "TypeError", set_base |-> FALSE]
    ELSE LET start_year == IF start_arg.is_none
                           THEN MinOf({df[k].first_year : k \in 1..Len(df)})
                           ELSE start_arg.value
             end_year == IF end_arg.is_none
                         THEN MaxOf({df[k].second_year : k \in 1..Len(df)})
                         ELSE end_arg.value
             n_years == IF end_year >= start_year THEN end_year - start_year + 1 ELSE 0
             n_obs == Len(df)
         IN IF n_years - 1 < 0
            THEN \* sparse.lil_matrix((n_obs, -1)): ValueError
                 [status |-> "raise", error |-> "ValueError", set_base |-> FALSE]
            ELSE LET zeros == [r \in 1..n_obs |-> [c \in 1..(n_years - 1) |-> 0]]
                     filled == FillDesign(zeros, df, 1, start_year, n_years)
                 IN IF filled.status = "raise"
                    THEN [status |-> "raise", error |-> filled.error,
                          set_base |-> TRUE, base_period |-> start_year]
                    ELSE [status |-> "ok", set_base |-> TRUE, base_period |-> start_year,
                          X |-> filled.X,
                          y |-> [k \in 1..n_obs |-> df[k].log_price_relative],
                          years |-> [j \in 1..n_years |-> start_year + j - 1]]

\* sum over the rows of X[.][c1] * X[.][c2], and of X[.][c] * y[.]
Dot(X, c1, c2) == SeqSum([k \in 1..Len(X) |-> X[k][c1] * X[k][c2]])
DotY(X, y, c) == SeqSum([k \in 1..Len(X) |-> X[k][c] * y[k]])

\* sm.OLS(y, X).fit().params for at most two columns: the least-squares
\* solution of minimum norm (statsmodels solves with the pseudo-inverse).
OLSParams(X, y, n_params) ==
    IF n_params = 0 THEN <<>>
    ELSE IF n_params = 1
    THEN <<IF Dot(X, 1, 1) = 0 THEN RatInt(0) ELSE Rat(DotY(X, y, 1), Dot(X, 1, 1))>>
    ELSE LET a == Dot(X, 1, 1)
             b == Dot(X, 1, 2)
             c == Dot(X, 2, 2)
             g1 == DotY(X, y, 1)
             g2 == DotY(X, y, 2)
             det == a * c - b * b
             tr == a + c
         IN IF det # 0
            THEN <<Rat(c * g1 - b * g2, det), Rat(a * g2 - b * g1, det)>>
            ELSE IF tr = 0 THEN <<RatInt(0), RatInt(0)>>
            ELSE <<Rat(a * g1 + b * g2, tr * tr), Rat(b * g1 + c * g2, tr * tr)>>

\* The outcomes of sm.OLS(y, X).fit(): the fit; a design matrix without columns
\* (a one-year range) may also make the library raise.
OLSOutcomes(X, y, n_params) ==
    {[status |-> "ok", params |-> OLSParams(X, y, n_params)]}
        \cup (IF n_params = 0 THEN {Raise("ValueError")} ELSE {})

\* BMNRegression.run_regression: the possible outcomes, each with the
\* object's fields after the call.
run_regression(obj, df, start_arg, end_arg) ==
    LET prep == prepare_regression_data(df, start_arg, end_arg)
        after_prep ==
            [results |-> obj.results,
             time_periods |-> IF prep.status = "ok"
                              THEN [is_none |-> FALSE, years |-> prep.years]
                              ELSE obj.time_periods,
             base_period |-> IF prep.set_base THEN SomeYear(prep.base_period)
                             ELSE obj.base_period]
    IN IF prep.status = "raise"
       THEN {[status |-> "raise", error |-> prep.error, obj |-> after_prep]}
       ELSE IF Len(prep.y) = 0
       THEN {[status |-> "raise", error |-> "ValueError", obj |-> after_prep]}
       ELSE {IF fit.status = "ok"
             THEN [status |-> "ok",
                   obj |-> [after_prep EXCEPT
                               !.results = [is_none |-> FALSE, params |-> fit.params]]]
             ELSE [status |-> "raise", error |-> fit.error, obj |-> after_prep] :
               fit \in OLSOutcomes(prep.X, prep.y, Len(prep.years) - 1)}

\* Position of a year in self.time_periods (list.index), 0 when absent.
PeriodIndex(years, y) ==
    IF \E j \in 1..Len(years) : years[j] = y
    THEN CHOOSE j \in 1..Len(years) : years[j] = y
    ELSE 0

\* get_coefficient_for_year with the range check answering 0.0 instead of raising.
get_coefficient_for_year_Lenient(obj, y) ==
    IF obj.results.is_none THEN Raise("ValueError")
    ELSE IF obj.time_periods.is_none \/ PeriodIndex(obj.time_periods.years, y) <= 1
    THEN [status |-> "ok", value |-> RatInt(0)]
    ELSE [status |-> "ok", value |-> obj.results.params[PeriodIndex(obj.time_periods.years, y) - 1]]

\* BMNRegression.get_coefficient_for_year
get_coefficient_for_year(obj, y) ==
    IF obj.results.is_none THEN Raise("ValueError")
    ELSE IF ~obj.base_period.is_none /\ y = obj.base_period.value
    THEN [status |-> "ok", value |-> RatInt(0)]
    ELSE IF obj.time_periods.is_none \/ PeriodIndex(obj.time_periods.years, y) = 0
    THEN Raise("ValueError")
    ELSE LET year_idx == PeriodIndex(obj.time_periods.years, y)
         IN IF year_idx = 1 THEN [status |-> "ok", value |-> RatInt(0)]
            ELSE IF year_idx - 1 > Len(obj.results.params) THEN Raise("IndexError")
            ELSE [status |-> "ok", value |-> obj.results.params[year_idx - 1]]

\* repeat_sales_df[repeat_sales_df['census_tract_2010'].isin(tracts)]
FilterTracts(df, tracts) == SelectSeq(df, LAMBDA r : r.census_tract_2010 \in tracts)

FreshBMN == [results |-> NoResults, time_periods |-> NoPeriods, base_period |-> NoYear]

\* What run_bmn_for_supertract hands back: a pair returned, or an exception.
Returned(rate, coef) ==
    [status |-> "returned", appreciation_rate |-> rate, coef_t |-> coef]
Raised == [status |-> "raise", appreciation_rate |-> RatInt(0), coef_t |-> RatInt(0)]

\* The same lines without the except clause: the exception reaches the caller.
AppreciationOrRaise(run, y) ==
    IF run.status = "raise" THEN Raised
    ELSE LET coef_t == get_coefficient_for_year(run.obj, y)
             coef_t_minus_1 == get_coefficient_for_year(run.obj, y - 1)
         IN IF coef_t.status = "raise" \/ coef_t_minus_1.status = "raise"
            THEN Raised
            ELSE Returned(RatSub(coef_t.value, coef_t_minus_1.value), coef_t.value)

\* Lines 310-324 for one outcome of run_regression: the coefficient lookups,
\* with the except clause that turns every exception into (0.0, 0.0).
AppreciationOrNeutral(run, y) ==
    IF run.status = "raise" THEN Returned(RatInt(0), RatInt(0))
    ELSE LET coef_t == get_coefficient_for_year(run.obj, y)
             coef_t_minus_1 == get_coefficient_for_year(run.obj, y - 1)
         IN IF coef_t.status = "raise" \/ coef_t_minus_1.status = "raise"
            THEN Returned(RatInt(0), RatInt(0))
            ELSE Returned(RatSub(coef_t.value, coef_t_minus_1.value), coef_t.value)

\* run_bmn_for_supertract: the possible outcomes.
run_bmn_for_supertract(df, supertract_tracts, y) ==
    LET supertract_sales == FilterTracts(df, supertract_tracts)
    IN IF Len(supertract_sales) = 0
       THEN {Returned(RatInt(0), RatInt(0))}
       ELSE {AppreciationOrNeutral(run, y) :
               run \in run_regression(FreshBMN, supertract_sales, NoYear, NoYear)}

\* ---- inputs of the regression engine ----
BMNTracts == {1, 2}
BMNYears == 2018..2020
StartArgs == {NoYear, SomeYear(2019)}
EndArgs == {NoYear, SomeYear(2019)}

BMNSaleKinds == <<[first_year |-> 2018, second_year |-> 2018],
                  [first_year |-> 2018, second_year |-> 2019],
                  [first_year |-> 2018, second_year |-> 2020],
                  [first_year |-> 2019, second_year |-> 2019],
                  [first_year |-> 2019, second_year |-> 2020]>>

\* All candidate rows (without label): tract-major, then kind; the log price
\* relatives cycle through 1, 2, 3.
BMNRowList ==
    [k \in 1..(Cardinality(BMNTracts) * Len(BMNSaleKinds)) |->
        LET t == ((k - 1) \div Len(BMNSaleKinds)) + 1
            kind == BMNSaleKinds[((k - 1) % Len(BMNSaleKinds)) + 1]
        IN [census_tract_2010 |-> t, cbsa_id |-> "A",
            first_year |-> kind.first_year, second_year |-> kind.second_year,
            log_price_relative |-> ((k - 1) % 3) + 1]]

\* Gives each row of a table its position as label (a default RangeIndex).
WithLabels(rows) ==
    [k \in 1..Len(rows) |->
        [label |-> k, census_tract_2010 |-> rows[k].census_tract_2010,
         cbsa_id |-> rows[k].cbsa_id, first_year |-> rows[k].first_year,
         second_year |-> rows[k].second_year,
         log_price_relative |-> rows[k].log_price_relative]]

BMNSalesTables ==
    {WithLabels(SelectRows(BMNRowList, I)) :
        I \in {J \in SUBSET (1..Len(BMNRowList)) : Cardinality(J) <= MaxSales}}

\* The tables a caller hands to the engine: the whole table or the rows of one tract.
BMNInputs(df) == {df} \cup {FilterTracts(df, {t}) : t \in BMNTracts}

BMNInit ==
    /\ repeat_sales_df \in BMNSalesTables
    /\ BMNFresh
    /\ bmn_last = [op |-> "none"]
    /\ sup_ret = [status |-> "none"]
    /\ geographic_df = <<>> /\ distance_calc = "none" /\ min_half_pairs = 0
    /\ year = 0 /\ cbsa_id = "A" /\ st_pc = "idle" /\ supertracts = <<>>
    /\ processed_tracts = {} /\ unprocessed = <<>> /\ current_supertract = <<>>
    /\ emit_left = <<>> /\ merge_steps = 0
    /\ supertract_counter = 0 /\ supertract_ids = <<>>
    /\ all_supertracts = <<>> /\ ga_calls = <<>> /\ ga_pc = "idle"
    /\ nn_ret = [op |-> "none"]
    /\ WIdle
    /\ CHIdle
    /\ AGGIdle

BMNObject == [results |-> results, time_periods |-> time_periods, base_period |-> base_period]

\* A direct call of prepare_regression_data on the object.
BMNPrepare ==
    /\ \E df \in BMNInputs(repeat_sales_df), start_arg \in StartArgs, end_arg \in EndArgs :
         \E prep \in {prepare_regression_data(df, start_arg, end_arg)} :
            /\ base_period' = IF prep.set_base THEN SomeYear(prep.base_period) ELSE base_period
            /\ time_periods' = IF prep.status = "ok"
                               THEN [is_none |-> FALSE, years |-> prep.years]
                               ELSE time_periods
            /\ bmn_last' = [op |-> "prepare_regression_data", status |-> prep.status,
                            df |-> df, start_year |-> start_arg, end_year |-> end_arg,
                            X |-> IF prep.status = "ok" THEN prep.X ELSE <<>>,
                            y |-> IF prep.status = "ok" THEN prep.y ELSE <<>>,
                            years |-> IF prep.status = "ok" THEN prep.years ELSE <<>>]
    /\ UNCHANGED <<results, sup_ret, repeat_sales_df>>
    /\ UNCHANGED notBMN

\* A call of run_regression on the object.
BMNRun ==
    /\ \E df \in BMNInputs(repeat_sales_df), start_arg \in StartArgs, end_arg \in EndArgs :
         \E out \in run_regression(BMNObject, df, start_arg, end_arg) :
            /\ results' = out.obj.results
            /\ time_periods' = out.obj.time_periods
            /\ base_period' = out.obj.base_period
            /\ bmn_last' = [op |-> "run_regression", status |-> out.status]
    /\ UNCHANGED <<sup_ret, repeat_sales_df>>
    /\ UNCHANGED notBMN

BMNNext == BMNPrepare \/ BMNRun

SpecBMN == BMNInit /\ [][BMNNext]_vars

\* ---- run_bmn_for_supertract, called on the shared table ----
SupertractTractSets == SUBSET (BMNTracts \cup {3}) \ {{}}
SupertractYears == 2018..2021

SUPRun ==
    /\ sup_ret.status = "none"
    /\ \E tracts \in SupertractTractSets, y \in SupertractYears :
         \E ret \in run_bmn_for_supertract(repeat_sales_df, tracts, y) :
            sup_ret' = [status |-> ret.status, tracts |-> tracts, year |-> y,
                        appreciation_rate |-> ret.appreciation_rate, coef_t |-> ret.coef_t]
    /\ UNCHANGED <<results, time_periods, base_period, bmn_last, repeat_sales_df>>
    /\ UNCHANGED notBMN

SUPNext == SUPRun

SpecSUP == BMNInit /\ [][SUPNext]_vars

(***************************************************************************)
(* City-level aggregation (index/aggregation.py)                           *)
(***************************************************************************)
\* pd.DataFrame(results): a list of records gives a frame with their columns,
\* the empty list gives a frame with no columns at all.
Frame(rows) == [stored |-> TRUE, has_columns |-> rows # <<>>, rows |-> rows]

\* list(self.weight_calculator.schemes.keys()), in registration order.
AllSchemes == <<"sample", "value", "unit", "upb", "college", "non_white">>

\* The row calculate_supertract_appreciation appends for one supertract, lines 64-82.
AppreciationRow(df, row, y, ret) ==
    [supertract_id |-> row.supertract_id, cbsa_id |-> row.cbsa_id,
     appreciation_rate |-> ret.appreciation_rate,
     n_observations |-> Len(FilterTracts(df, Range(row.component_tracts)))]

\* The row lists the loop of lines 63-82 can build over the first k supertracts.
RECURSIVE AppreciationRows(_, _, _, _)
AppreciationRows(df, year_supertracts, y, k) ==
    IF k = 0 THEN {<<>>}
    ELSE {Append(rows, AppreciationRow(df, year_supertracts[k], y, ret)) :
            rows \in AppreciationRows(df, year_supertracts, y, k - 1),
            ret \in run_bmn_for_supertract(df, Range(year_supertracts[k].component_tracts), y)}

\* CityLevelAggregator.calculate_supertract_appreciation: the frames it can return.
calculate_supertract_appreciation(df, defs, y) ==
    LET year_supertracts == YearData(defs, y)
    IN {Frame(rows) : rows \in AppreciationRows(df, year_supertracts, y, Len(year_supertracts))}

\* series.unique(): the distinct values in order of first appearance.
Unique(s) ==
    LET firsts == {k \in 1..Len(s) : \A j \in 1..(k - 1) : s[j] # s[k]}
    IN [i \in 1..Cardinality(firsts) |-> s[KthSmallest(firsts, i)]]

\* The alignment that gives every id the first weight of the series.
AlignedWeightFirst(weights, id) ==
    IF weights = <<>> THEN RatInt(0) ELSE weights[1].weight

\* weights.reindex(ids).fillna(0): the weight of each id, 0 for an id without one.
AlignedWeight(weights, id) ==
    IF \E k \in 1..Len(weights) : weights[k].supertract_id = id
    THEN weights[CHOOSE k \in 1..Len(weights) : weights[k].supertract_id = id].weight
    ELSE RatInt(0)

\* reindex refuses an index with duplicate labels.
HasDuplicateIds(weights) ==
    \E j, k \in 1..Len(weights) : j < k /\ weights[j].supertract_id = weights[k].supertract_id

\* The record of one (metro, scheme), lines 154-161 and 167-174.
CityRow(cbsa, y, scheme, cbsa_supertracts, rate) ==
    [cbsa_id |-> cbsa, year |-> y, weighting_scheme |-> scheme,
     appreciation_rate |-> rate,
     n_supertracts |-> Len(cbsa_supertracts),
     total_observations |-> SeqSum([k \in 1..Len(cbsa_supertracts) |->
                                       cbsa_supertracts[k].n_observations])]

\* The try block, lines 139-161, once the weights are known; a failure is
\* reported, not handled.
WeightedRecord(w, cbsa, y, scheme, cbsa_supertracts) ==
    IF w.status = "raise" THEN [status |-> "raise", error |-> w.error]
    ELSE IF HasDuplicateIds(w.weights) THEN [status |-> "raise", error |-> "ValueError"]
    ELSE [status |-> "ok",
          record |-> CityRow(cbsa, y, scheme, cbsa_supertracts,
                        RatSeqSum([k \in 1..Len(cbsa_supertracts) |->
                           RatMul(AlignedWeight(w.weights, cbsa_supertracts[k].supertract_id),
                                  cbsa_supertracts[k].appreciation_rate)]))]

\* The body of the try block, lines 139-161.
TryCityRecord(appr_rows, defs, y, wdf, cbsa, scheme) ==
    CHOOSE tried \in
        {WeightedRecord(w, cbsa, y, scheme, SelectSeq(appr_rows, LAMBDA r : r.cbsa_id = cbsa)) :
           w \in {calculate_weights(scheme,
                      SelectSeq(defs, LAMBDA r : r.cbsa_id = cbsa /\ r.year = y), y, wdf)}} : TRUE

\* The loop body without the except clause: the failure leaves the loop.
CityRecordNoCatch(appr_rows, defs, y, wdf, cbsa, scheme) ==
    TryCityRecord(appr_rows, defs, y, wdf, cbsa, scheme)

\* The loop body, lines 138-174: the except clause appends a record with rate 0.0.
CityRecord(appr_rows, defs, y, wdf, cbsa, scheme) ==
    CHOOSE rec \in
        {IF tried.status = "ok" THEN tried
         ELSE [status |-> "ok",
               record |-> CityRow(cbsa, y, scheme,
                                  SelectSeq(appr_rows, LAMBDA r : r.cbsa_id = cbsa),
                                  RatInt(0))] :
           tried \in {TryCityRecord(appr_rows, defs, y, wdf, cbsa, scheme)}} : TRUE

\* The two nested loops, lines 126-174: entry n belongs to the n-th
\* (metro, scheme) pair in metro-major order; the first failure that leaves
\* the loop body ends the loops.
RECURSIVE CityLoop(_, _, _, _, _, _, _, _)
CityLoop(appr_rows, defs, y, wdf, cbsas, schemes, n, acc) ==
    IF n > Len(cbsas) * Len(schemes) THEN [status |-> "ok", results |-> acc]
    ELSE CHOOSE out \in
           {IF rec.status = "raise" THEN [status |-> "raise", error |-> rec.error]
            ELSE CityLoop(appr_rows, defs, y, wdf, cbsas, schemes, n + 1,
                          Append(acc, rec.record)) :
              rec \in {CityRecord(appr_rows, defs, y, wdf,
                                  cbsas[((n - 1) \div Len(schemes)) + 1],
                                  schemes[((n - 1) % Len(schemes)) + 1])}} : TRUE

\* Lines 176-185: the frame of the records, and the per-scheme entries stored
\* in self.city_results[year] (an entry of the same scheme is replaced).
StoreCityResults(loop, schemes, stored_before) ==
    IF loop.status = "raise"
    THEN [status |-> "raise", error |-> loop.error, stored |-> stored_before]
    ELSE IF loop.results = <<>> /\ schemes # <<>>
    THEN [status |-> "raise", error |-> "KeyError",
          stored |-> [stored |-> TRUE,
                      schemes |-> IF stored_before.stored
                                  THEN stored_before.schemes ELSE <<>>]]
    ELSE [status |-> "ok", results |-> loop.results,
          stored |->
             [stored |-> TRUE,
              schemes |->
                 (IF stored_before.stored
                  THEN SelectSeq(stored_before.schemes,
                                 LAMBDA e : e.scheme \notin Range(schemes))
                  ELSE <<>>)
                 \o [j \in 1..Len(Unique(schemes)) |->
                       [scheme |-> Unique(schemes)[j],
                        rows |-> SelectSeq(loop.results,
                            LAMBDA r : r.weighting_scheme = Unique(schemes)[j])]]]]

\* CityLevelAggregator.aggregate_to_city_level: what it returns, and the
\* entry it stores in self.city_results[year].
aggregate_to_city_level(appr, defs, y, wdf, schemes_arg, stored_before) ==
    IF ~appr.has_columns
    THEN [status |-> "raise", error |-> "KeyError", stored |-> stored_before]
    ELSE CHOOSE out \in
           {StoreCityResults(loop,
                             IF schemes_arg.is_none THEN AllSchemes ELSE schemes_arg.list,
                             stored_before) :
              loop \in {CityLoop(appr.rows, defs, y, wdf,
                                 Unique([k \in 1..Len(appr.rows) |-> appr.rows[k].cbsa_id]),
                                 IF schemes_arg.is_none THEN AllSchemes ELSE schemes_arg.list,
                                 1, <<>>)}} : TRUE

\* CityLevelAggregator.process_all_years from year y on: the final value of the
\* two dicts and the concatenated results, or the exception that ended the loop.
RECURSIVE ProcessYears(_, _, _, _, _, _, _, _, _)
ProcessYears(df, defs, y, end_year, wdf, schemes_arg, sres, cres, all_results) ==
    IF y > end_year
    THEN {[status |-> "ok", results |-> all_results,
           supertract_results |-> sres, city_results |-> cres]}
    ELSE UNION {
           IF agg.status = "raise"
           THEN {[status |-> "raise", results |-> all_results,
                  supertract_results |-> [sres EXCEPT ![y] = frame],
                  city_results |-> [cres EXCEPT ![y] = agg.stored]]}
           ELSE ProcessYears(df, defs, y + 1, end_year, wdf, schemes_arg,
                             [sres EXCEPT ![y] = frame],
                             [cres EXCEPT ![y] = agg.stored],
                             all_results \o agg.results)
           : <<frame, agg>> \in
               {<<f, aggregate_to_city_level(f, defs, y, wdf, schemes_arg, cres[y])>> :
                  f \in calculate_supertract_appreciation(df, defs, y)}}

\* ---- inputs of the aggregator ----
MaxAggSales == 2
AggTracts == 1..3

AggSaleKinds == <<[first_year |-> 2018, second_year |-> 2019],
                  [first_year |-> 2019, second_year |-> 2020]>>

\* The metro of a tract: tracts 1 and 2 lie in "A", the others in "B".
AggCbsaOf(t) == IF t <= 2 THEN "A" ELSE "B"

AggRowList ==
    [k \in 1..(Cardinality(AggTracts) * Len(AggSaleKinds)) |->
        LET t == ((k - 1) \div Len(AggSaleKinds)) + 1
            kind == AggSaleKinds[((k - 1) % Len(AggSaleKinds)) + 1]
        IN [census_tract_2010 |-> t, cbsa_id |-> AggCbsaOf(t),
            first_year |-> kind.first_year, second_year |-> kind.second_year,
            log_price_relative |-> ((k - 1) % 2) + 1]]

AggSalesTables ==
    {WithLabels(SelectRows(AggRowList, I)) :
        I \in {J \in SUBSET (1..Len(AggRowList)) : Cardinality(J) <= MaxAggSales}}

\* The supertracts of one (metro, year): none, one per tract, or all tracts merged.
AggShapes(cbsa) ==
    LET tracts == SelectSeq([t \in AggTracts |-> t], LAMBDA t : AggCbsaOf(t) = cbsa)
    IN {<<>>, [k \in 1..Len(tracts) |-> <<tracts[k]>>], <<tracts>>}

\* The rows generate_all_supertracts builds for one (metro, year), lines 292-305.
DefinitionRows(sales, cbsa, y, shape) ==
    [k \in 1..Len(shape) |->
        [supertract_id |-> <<cbsa, y, k - 1>>, year |-> y, cbsa_id |-> cbsa,
         component_tracts |-> shape[k],
         half_pairs_count |-> calculate_half_pairs_multi(FilterCbsaSales(sales, cbsa),
                                                         y, shape[k])]]

\* Definition tables over AggYears in the row order of generate_all_supertracts
\* (metro by metro, year by year): 2019 has no supertract at all or every
\* tract on its own, 2020 any shape.
AggDefinitionTables(sales) ==
    {(IF with2019 THEN DefinitionRows(sales, "A", 2019, <<<<1>>, <<2>>>>) ELSE <<>>)
       \o DefinitionRows(sales, "A", 2020, sh[1])
       \o (IF with2019 THEN DefinitionRows(sales, "B", 2019, <<<<3>>>>) ELSE <<>>)
       \o DefinitionRows(sales, "B", 2020, sh[2]) :
     with2019 \in BOOLEAN, sh \in AggShapes("A") \X AggShapes("B")}

\* Weighting tables: absent, empty, or one row per tract and year.
AggWeightingTables ==
    {NoTable, Table(<<>>),
     Table(SelectSeq(WeightingRowList,
                     LAMBDA r : (r.total_housing_units = 0) <=> (r.census_tract_2010 = 2)))}

AggSchemeLists ==
    {NoList, SomeList(<<"sample">>), SomeList(<<"sample", "value">>),
     SomeList(<<"median", "sample">>)}

AGGInit ==
    /\ repeat_sales_df \in AggSalesTables
    /\ supertracts_df \in AggDefinitionTables(repeat_sales_df)
    /\ weighting_data \in AggWeightingTables
    /\ weighting_schemes \in AggSchemeLists
    /\ AGGFresh
    /\ geographic_df = <<>> /\ distance_calc = "none" /\ min_half_pairs = 0
    /\ year = 0 /\ cbsa_id = "A" /\ st_pc = "idle" /\ supertracts = <<>>
    /\ processed_tracts = {} /\ unprocessed = <<>> /\ current_supertract = <<>>
    /\ emit_left = <<>> /\ merge_steps = 0
    /\ supertract_counter = 0 /\ supertract_ids = <<>>
    /\ all_supertracts = <<>> /\ ga_calls = <<>> /\ ga_pc = "idle"
    /\ nn_ret = [op |-> "none"]
    /\ supertract_data = <<>>
    /\ w_call = [scheme_name |-> "none", year |-> 0]
    /\ w_result = [status |-> "none"]
    /\ CHIdle
    /\ BMNIdle

\* A call of calculate_supertract_appreciation(repeat_sales_df, supertracts_df, y).
AGGCalculateAppreciation ==
    /\ agg_ret.op = "none"
    /\ \E y \in AggYears :
         \E frame \in calculate_supertract_appreciation(repeat_sales_df, supertracts_df, y) :
            /\ supertract_results' = [supertract_results EXCEPT ![y] = frame]
            /\ agg_ret' = [op |-> "calculate_supertract_appreciation", year |-> y,
                           status |-> "ok", results |-> frame.rows]
    /\ UNCHANGED <<repeat_sales_df, weighting_data, supertracts_df, weighting_schemes,
                   city_results>>
    /\ UNCHANGED notAGG

\* A call of aggregate_to_city_level on the frame just computed for year y.
AGGAggregate ==
    /\ agg_ret.op = "calculate_supertract_appreciation"
    /\ \E agg \in {aggregate_to_city_level(supertract_results[agg_ret.year], supertracts_df,
                                            agg_ret.year, weighting_data, weighting_schemes,
                                            city_results[agg_ret.year])} :
          /\ city_results' = [city_results EXCEPT ![agg_ret.year] = agg.stored]
          /\ agg_ret' = [op |-> "aggregate_to_city_level", year |-> agg_ret.year,
                         status |-> agg.status,
                         results |-> IF agg.status = "ok" THEN agg.results ELSE <<>>]
    /\ UNCHANGED <<repeat_sales_df, weighting_data, supertracts_df, weighting_schemes,
                   supertract_results>>
    /\ UNCHANGED notAGG

\* A call of process_all_years(repeat_sales_df, supertracts_df, start_year, 2020, ...).
AGGProcessAllYears ==
    /\ agg_ret.op = "none"
    /\ \E start_year \in AggYears :
         \E out \in ProcessYears(repeat_sales_df, supertracts_df, start_year, 2020,
                                 weighting_data, weighting_schemes,
                                 supertract_results, city_results, <<>>) :
            /\ supertract_results' = out.supertract_results
            /\ city_results' = out.city_results
            /\ agg_ret' = [op |-> "process_all_years", year |-> start_year,
                           status |-> out.status, results |-> out.results]
    /\ UNCHANGED <<repeat_sales_df, weighting_data, supertracts_df, weighting_schemes>>
    /\ UNCHANGED notAGG

AGGNext == AGGCalculateAppreciation \/ AGGAggregate \/ AGGProcessAllYears

SpecAGG == AGGInit /\ [][AGGNext]_vars

(***************************************************************************)
(* geography/supertract.py: generate_all_supertracts                       *)
(***************************************************************************)
\* The years generate_all_supertracts is asked about.
GAYears == 2019..2020

\* The iterations of the two nested loops, lines 286-289: metros in order of
\* first appearance in the sales table, and for each the years of the range.
GACalls(sales, start_year, end_year) ==
    LET cbsas == Unique([k \in 1..Len(sales) |-> sales[k].cbsa_id])
        n == IF end_year >= start_year THEN end_year - start_year + 1 ELSE 0
    IN [k \in 1..(Len(cbsas) * n) |->
           [cbsa_id |-> cbsas[((k - 1) \div n) + 1], year |-> start_year + ((k - 1) % n)]]

\* Lines 292-305: one row per entry of the dict a call returned, in dict order.
GARows(sales, keys, vals, y, cbsa) ==
    [k \in 1..Len(keys) |->
        [supertract_id |-> keys[k], year |-> y, cbsa_id |-> cbsa,
         component_tracts |-> vals[k],
         half_pairs_count |->
             calculate_half_pairs_multi(FilterCbsaSales(sales, cbsa), y, vals[k])]]

GAInit ==
    /\ geographic_df \in GeographicTables
    /\ distance_calc = InitDistanceCalc(geographic_df)
    /\ min_half_pairs \in Thresholds
    /\ repeat_sales_df \in SalesTables(geographic_df)
    /\ year = 0
    /\ cbsa_id = "A"
    /\ st_pc = "idle"
    /\ supertracts = <<>>
    /\ processed_tracts = {}
    /\ unprocessed = <<>>
    /\ current_supertract = <<>>
    /\ emit_left = <<>>
    /\ merge_steps = 0
    /\ supertract_counter = 0
    /\ supertract_ids = <<>>
    /\ all_supertracts = <<>>
    /\ ga_calls = <<>>
    /\ ga_pc = "start"
    /\ nn_ret = [op |-> "none"]
    /\ WIdle
    /\ CHIdle
    /\ BMNIdle
    /\ AGGIdle

notGA == <<nnVars, wVars, chVars, bmnVars, aggVars>>

\* Lines 281-284: the call starts with an empty row list.
GABegin ==
    /\ UNCHANGED notGA
    /\ ga_pc = "start"
    /\ \E start_year \in GAYears, end_year \in GAYears :
         ga_calls' = GACalls(repeat_sales_df, start_year, end_year)
    /\ all_supertracts' = <<>>
    /\ ga_pc' = "loop"
    /\ UNCHANGED stVars

\* Lines 289-291: the next iteration calls generate_supertracts_for_year.
GACall ==
    /\ UNCHANGED notGA
    /\ ga_pc = "loop"
    /\ ga_calls # <<>>
    /\ year' = Head(ga_calls).year
    /\ cbsa_id' = Head(ga_calls).cbsa_id
    /\ st_pc' = "start"
    /\ supertracts' = <<>>
    /\ processed_tracts' = {}
    /\ unprocessed' = <<>>
    /\ current_supertract' = <<>>
    /\ emit_left' = <<>>
    /\ merge_steps' = 0
    /\ supertract_counter' = 0
    /\ supertract_ids' = <<>>
    /\ ga_pc' = "call"
    /\ UNCHANGED <<geographic_df, distance_calc, min_half_pairs, repeat_sales_df,
                   all_supertracts, ga_calls>>

\* Lines 292-305: the rows of the supertracts the call returned are appended.
GACollect ==
    /\ UNCHANGED notGA
    /\ ga_pc = "call"
    /\ st_pc = "done"
    /\ all_supertracts' = all_supertracts \o
           GARows(repeat_sales_df, supertract_ids, supertracts, year, cbsa_id)
    /\ ga_calls' = Tail(ga_calls)
    /\ st_pc' = "idle"
    /\ ga_pc' = "loop"
    /\ UNCHANGED <<geographic_df, distance_calc, min_half_pairs, repeat_sales_df,
                   year, cbsa_id, supertracts, processed_tracts, unprocessed,
                   current_supertract, emit_left, merge_steps, supertract_counter,
                   supertract_ids>>

\* An exception of generate_supertracts_for_year leaves generate_all_supertracts.
GARaise ==
    /\ UNCHANGED notGA
    /\ ga_pc = "call"
    /\ st_pc = "raised"
    /\ ga_pc' = "raised"
    /\ UNCHANGED <<stVars, all_supertracts, ga_calls>>

\* Line 307: return pd.DataFrame(all_supertracts).
GAReturn ==
    /\ UNCHANGED notGA
    /\ ga_pc = "loop"
    /\ ga_calls = <<>>
    /\ ga_pc' = "done"
    /\ UNCHANGED <<stVars, all_supertracts, ga_calls>>

GANext ==
    \/ GABegin \/ GACall \/ GACollect \/ GARaise \/ GAReturn
    \/ STBegin \/ STStartCluster \/ STMergeStep \/ STReturn

SpecGA == GAInit /\ [][GANext]_vars

(***************************************************************************)
(* geography/distance.py: get_nearest_neighbor                             *)
(***************************************************************************)
MaxIndexSize == 22
NeighborCap == 20

\* The longitudes of n tracts: spread along the equator, all at one point, or
\* in three groups.
NNLayouts(n) == {[t \in 1..n |-> t], [t \in 1..n |-> 0], [t \in 1..n |-> t % 3]}

\* The tract tables the calculator is built from.
NNGeographicTables ==
    UNION {{[t \in 1..n |-> [cbsa_id |-> "A", centroid_lat |-> 0,
                              centroid_lon |-> lon[t]]] : lon \in NNLayouts(n)} :
           n \in 1..MaxIndexSize}

\* The exclusion sets of a query: none, or a run of consecutive tracts that
\* starts at the first or the second tract.
NNExcludeSets == {{}} \cup {a..b : a \in 1..2, b \in 1..MaxIndexSize}

\* The distance the KD-tree measures (lines 90-93, 125): Euclidean between the
\* (lat, lon) points in radians; for points of latitude 0 it is |dlon|, here in
\* whole degrees.
TreeDistance(geo, a, b) == Abs(geo[a].centroid_lon - geo[b].centroid_lon)

\* Line 124: k = min(len(self.geographic_df), 20).
SearchWidth(n) == IF n < NeighborCap THEN n ELSE NeighborCap

\* get_nearest_neighbor: the outcomes a call can have.  tree.query returns the
\* k nearest points in order of distance; which of several points at the k-th
\* distance it returns, and the order of points at equal distance, are not
\* specified, so every choice is an outcome.  A tract nearer than the k-th
\* distance is always among the k; the loop returns the first tract that is
\* neither the query tract nor excluded, and raises when there is none.  With
\* k = 1 the result arrays lose their last dimension and zip() fails.
get_nearest_neighbor(geo, tract_id, exclude) ==
    IF tract_id \notin DOMAIN geo THEN {[status |-> "ValueError", neighbor_tract |-> 0]}
    ELSE IF SearchWidth(Len(geo)) = 1 THEN {[status |-> "TypeError", neighbor_tract |-> 0]}
    ELSE LET k == SearchWidth(Len(geo))
             D(t) == TreeDistance(geo, tract_id, t)
             dk == CHOOSE d \in {D(t) : t \in DOMAIN geo} :
                      /\ Cardinality({t \in DOMAIN geo : D(t) < d}) < k
                      /\ k <= Cardinality({t \in DOMAIN geo : D(t) <= d})
             sure == {t \in DOMAIN geo : D(t) < dk}
             tied == {t \in DOMAIN geo : D(t) = dk}
             valid(t) == t # tract_id /\ t \notin exclude
             returnable == {t \in sure \cup tied :
                               /\ valid(t)
                               /\ \A u \in sure : valid(u) => D(u) >= D(t)}
             none_valid == /\ \A u \in sure : ~valid(u)
                           /\ Cardinality({u \in tied : ~valid(u)}) >= k - Cardinality(sure)
         IN {[status |-> "ok", neighbor_tract |-> t] : t \in returnable}
               \cup (IF none_valid
                     THEN {[status |-> "ValueError", neighbor_tract |-> 0]} ELSE {})

\* GeographicDistanceCalculator.__init__ on a table with centroids.
NNInit ==
    /\ geographic_df \in NNGeographicTables
    /\ distance_calc = "built"
    /\ min_half_pairs = 0
    /\ repeat_sales_df = <<>>
    /\ year = 0
    /\ cbsa_id = "A"
    /\ st_pc = "idle"
    /\ supertracts = <<>>
    /\ processed_tracts = {}
    /\ unprocessed = <<>>
    /\ current_supertract = <<>>
    /\ emit_left = <<>>
    /\ merge_steps = 0
    /\ supertract_counter = 0
    /\ supertract_ids = <<>>
    /\ all_supertracts = <<>>
    /\ ga_calls = <<>>
    /\ ga_pc = "idle"
    /\ nn_ret = [op |-> "none"]
    /\ WIdle
    /\ CHIdle
    /\ BMNIdle
    /\ AGGIdle

\* A call of get_nearest_neighbor(tract_id, exclude_tracts).
NNQuery ==
    /\ nn_ret.op = "none"
    /\ \E tract_id \in 1..(MaxIndexSize + 1), exclude \in NNExcludeSets :
         \E ret \in get_nearest_neighbor(geographic_df, tract_id, exclude) :
            nn_ret' = [op |-> "get_nearest_neighbor", tract_id |-> tract_id,
                       exclude_tracts |-> exclude, status |-> ret.status,
                       neighbor_tract |-> ret.neighbor_tract]
    /\ UNCHANGED <<stVars, gaVars, wVars, chVars, bmnVars, aggVars>>

NNNext == NNQuery

SpecNN == NNInit /\ [][NNNext]_vars

(***************************************************************************)
(* Claims                                                                  *)
(***************************************************************************)
\* C1: when generate_supertracts_for_year returns, the component lists are an
\* exact partition of the metro's tracts: every tract of the metro is in exactly
\* one list, exactly once, no list is empty and no list holds a foreign tract.
C1_ExactPartition ==
    st_pc = "done" =>
        /\ \A t \in Range(CbsaTracts(geographic_df, cbsa_id)) :
              Cardinality({p \in (1..Len(supertracts)) \X Tracts :
                              /\ p[2] <= Len(supertracts[p[1]])
                              /\ supertracts[p[1]][p[2]] = t}) = 1
        /\ \A k \in 1..Len(supertracts) :
              /\ supertracts[k] # <<>>
              /\ Range(supertracts[k]) \subseteq Range(CbsaTracts(geographic_df, cbsa_id))

\* A returned partition with a singleton and a merged cluster.
C1_Witness ==
    /\ st_pc = "done"
    /\ \E j, k \in 1..Len(supertracts) : Len(supertracts[j]) = 1 /\ Len(supertracts[k]) >= 2

\* C2: every emitted supertract meets the threshold in the target year and in
\* the year before, or no unprocessed tract of the metro was left when it was
\* emitted.
C2_ThresholdOrExhausted ==
    \A k \in 1..Len(supertracts) :
        \/ /\ calculate_half_pairs_multi(FilterCbsaSales(repeat_sales_df, cbsa_id),
                                         year, supertracts[k]) >= min_half_pairs
           /\ calculate_half_pairs_multi(FilterCbsaSales(repeat_sales_df, cbsa_id),
                                         year - 1, supertracts[k]) >= min_half_pairs
        \/ emit_left[k] = {}

\* A tract that meets the threshold in the target year but not in the year
\* before was merged, and its cluster was emitted on reaching the threshold
\* while another tract was still unprocessed; a later cluster went out below
\* the threshold with nothing left.
C2_Witness ==
    LET cbsa_sales == FilterCbsaSales(repeat_sales_df, cbsa_id)
    IN /\ st_pc = "done"
       /\ \E k \in 1..Len(supertracts) :
             /\ Len(supertracts[k]) >= 2
             /\ calculate_half_pairs(cbsa_sales, year, supertracts[k][1]) >= min_half_pairs
             /\ calculate_half_pairs(cbsa_sales, year - 1, supertracts[k][1]) < min_half_pairs
             /\ ClusterMeetsThreshold(cbsa_sales, year, supertracts[k], min_half_pairs)
             /\ emit_left[k] # {}
       /\ \E k \in 1..Len(supertracts) :
             /\ ~ClusterMeetsThreshold(cbsa_sales, year, supertracts[k], min_half_pairs)
             /\ emit_left[k] = {}

\* C3: a weight vector returned by calculate_weights for a non-empty supertract
\* table of one (metro, year) sums to 1 and carries exactly the supertract ids
\* of the table, each once.
C3_WeightsSumToOne ==
    w_result.status = "ok" =>
        LET ws == w_result.weights
        IN /\ RatSeqSum([k \in 1..Len(ws) |-> ws[k].weight]) = RatInt(1)
           /\ Len(ws) = Len(supertract_data)
           /\ {ws[k].supertract_id : k \in 1..Len(ws)}
                 = {supertract_data[k].supertract_id : k \in 1..Len(supertract_data)}

\* A table scheme returned unequal weights over three supertracts.
C3_Witness ==
    /\ w_result.status = "ok"
    /\ w_call.scheme_name \in SchemeNames \ {"sample"}
    /\ Len(w_result.weights) = 3
    /\ \E j, k \in 1..3 : w_result.weights[j].weight # w_result.weights[k].weight

\* The years of a stored index series, and its value at a year.
SeriesYears(series) == {series[i].year : i \in 1..Len(series)}
ValueAt(series, y) == (CHOOSE i \in 1..Len(series) : series[i].year = y)

\* C4: when the configured base year is among the years of a chained series,
\* the index value at that year is the base value.
C4_BaseYearValue ==
    \A key \in DOMAIN chained_indices :
        LET series == chained_indices[key]
        IN (~ctor_base_year.is_none /\ ctor_base_year.value \in SeriesYears(series)) =>
              series[ValueAt(series, ctor_base_year.value)].index_value = RatInt(base_value)

\* A series chained around a configured base year that is not its first year.
C4_Witness ==
    \E key \in DOMAIN chained_indices :
        LET series == chained_indices[key]
        IN /\ ~ctor_base_year.is_none
           /\ Len(series) >= 2
           /\ series[1].year < ctor_base_year.value
           /\ ctor_base_year.value \in SeriesYears(series)
           /\ \E i \in 2..Len(series) : series[i].appreciation_rate # 0

\* C5: in a chained series every year after the base year is the previous
\* year's index times exp(its rate), and every year before the base year is the
\* next year's index divided by exp(the next year's rate).
C5_ChainingIdentities ==
    \A key \in DOMAIN chained_indices :
        LET series == chained_indices[key]
        IN \A i \in 1..Len(series) :
              /\ (i > 1 /\ series[i].year > base_year.value) =>
                    series[i].index_value =
                       RatMul(series[i - 1].index_value, Exp(series[i].appreciation_rate))
              /\ (i < Len(series) /\ series[i].year < base_year.value) =>
                    series[i].index_value =
                       RatDiv(series[i + 1].index_value, Exp(series[i + 1].appreciation_rate))

\* A series with years on both sides of the base year and non-zero rates there.
C5_Witness ==
    \E key \in DOMAIN chained_indices :
        LET series == chained_indices[key]
        IN /\ Len(series) = 3
           /\ series[2].year = base_year.value
           /\ series[2].appreciation_rate # 0
           /\ series[3].appreciation_rate # 0

\* C6 (as claimed): a chainer constructed without a base year anchors every
\* series it chains at that series' own first year.
C6_AnchoredAtOwnFirstYear ==
    ctor_base_year.is_none =>
        \A key \in DOMAIN chained_indices :
            LET series == chained_indices[key]
            IN series # <<>> => series[1].index_value = RatInt(base_value)

\* C7 (as claimed): the series stored for a key is the one a chainer fresh from
\* its constructor, with the same configuration, produces for that key alone.
C7_ChainsIndependent ==
    \A key \in DOMAIN chained_indices :
        chained_indices[key] # <<>> =>
            chained_indices[key] =
                ChainCall(appreciation_df, key, base_value, ctor_base_year,
                          [k \in ChainKeys |-> <<>>]).result

\* C8: after a successful run_regression the coefficient of the base year (the
\* first year of the fitted range) is 0.0, and a year outside the fitted range
\* raises.
C8_BaseZeroOutsideRaises ==
    (bmn_last.op = "run_regression" /\ bmn_last.status = "ok") =>
        LET years == time_periods.years
        IN /\ get_coefficient_for_year(BMNObject, years[1])
                 = [status |-> "ok", value |-> RatInt(0)]
           /\ \A y \in 2016..2022 :
                 (y < years[1] \/ y > years[Len(years)]) =>
                     get_coefficient_for_year(BMNObject, y).status = "raise"

\* A fit over three years with a non-zero coefficient.
C8_Witness ==
    /\ bmn_last.op = "run_regression" /\ bmn_last.status = "ok"
    /\ Len(time_periods.years) = 3
    /\ \E j \in 1..2 : get_coefficient_for_year(BMNObject, time_periods.years[j + 1]).value # RatInt(0)

\* The supertract's sales, their fitted range, and whether filling the design
\* matrix meets a row label beyond the matrix.
SupSales == FilterTracts(repeat_sales_df, sup_ret.tracts)
SupFirstYear == MinOf({SupSales[k].first_year : k \in 1..Len(SupSales)})
SupLastYear == MaxOf({SupSales[k].second_year : k \in 1..Len(SupSales)})
SupLabelBeyond ==
    \E k \in 1..Len(SupSales) :
        /\ SupSales[k].label > Len(SupSales)
        /\ (SupSales[k].first_year > SupFirstYear \/ SupSales[k].second_year > SupFirstYear)

\* C9: run_bmn_for_supertract never raises; it returns (0.0, 0.0) when the tract
\* set matches no sale, when the regression fails, and when the year or the year
\* before lies outside the fitted range.
C9_NeverRaisesNeutralOnFailure ==
    /\ sup_ret.status # "raise"
    /\ sup_ret.status = "returned" =>
          ((\/ SupSales = <<>>
            \/ SupLabelBeyond
            \/ sup_ret.year \notin SupFirstYear..SupLastYear
            \/ (sup_ret.year - 1) \notin SupFirstYear..SupLastYear)
           => /\ sup_ret.appreciation_rate = RatInt(0)
              /\ sup_ret.coef_t = RatInt(0))

\* A call whose tract set has sales, for a year after the fitted range.
C9_Witness ==
    /\ sup_ret.status = "returned"
    /\ SupSales # <<>>
    /\ sup_ret.year > SupLastYear
    /\ sup_ret.appreciation_rate = RatInt(0) /\ sup_ret.coef_t = RatInt(0)

\* The arguments of the last aggregate_to_city_level call.
AggFrame == supertract_results[agg_ret.year]
AggSchemes == IF weighting_schemes.is_none THEN AllSchemes ELSE weighting_schemes.list
AggCbsas == Unique([k \in 1..Len(AggFrame.rows) |-> AggFrame.rows[k].cbsa_id])
AggCbsaAt(n) == AggCbsas[((n - 1) \div Len(AggSchemes)) + 1]
AggSchemeAt(n) == AggSchemes[((n - 1) % Len(AggSchemes)) + 1]

\* Whether the weight calculation of the n-th (metro, scheme) pair fails.
AggWeightsFail(n) ==
    calculate_weights(AggSchemeAt(n),
                      SelectSeq(supertracts_df, LAMBDA r : r.cbsa_id = AggCbsaAt(n)
                                                          /\ r.year = agg_ret.year),
                      agg_ret.year, weighting_data).status = "raise"

\* The record a call for the n-th pair alone returns.
AggAloneRecord(n) ==
    aggregate_to_city_level(
        Frame(SelectSeq(AggFrame.rows, LAMBDA r : r.cbsa_id = AggCbsaAt(n))),
        supertracts_df, agg_ret.year, weighting_data, SomeList(<<AggSchemeAt(n)>>),
        [stored |-> FALSE]).results[1]

\* C10: aggregate_to_city_level does not raise when a weight calculation fails:
\* the failing (metro, year, scheme) gets a record with appreciation rate 0.0,
\* and every other (metro, scheme) of the call gets the record it gets alone.
C10_WeightFailureYieldsZeroRecord ==
    (agg_ret.op = "aggregate_to_city_level" /\ AggFrame.has_columns) =>
        /\ agg_ret.status = "ok"
        /\ Len(agg_ret.results) = Len(AggCbsas) * Len(AggSchemes)
        /\ \A n \in 1..Len(agg_ret.results) :
              /\ agg_ret.results[n].cbsa_id = AggCbsaAt(n)
              /\ agg_ret.results[n].year = agg_ret.year
              /\ agg_ret.results[n].weighting_scheme = AggSchemeAt(n)
              /\ IF AggWeightsFail(n)
                 THEN agg_ret.results[n].appreciation_rate = RatInt(0)
                 ELSE agg_ret.results[n] = AggAloneRecord(n)

\* A call in which one scheme fails next to a record with a non-zero rate.
C10_Witness ==
    /\ agg_ret.op = "aggregate_to_city_level" /\ agg_ret.status = "ok"
    /\ \E n, m \in 1..Len(agg_ret.results) :
          /\ AggWeightsFail(n)
          /\ agg_ret.results[n].appreciation_rate = RatInt(0)
          /\ agg_ret.results[m].appreciation_rate # RatInt(0)
          /\ agg_ret.results[m].cbsa_id = agg_ret.results[n].cbsa_id

\* The (metro, year, scheme) triples process_all_years was asked for: the years
\* of the range, the metros with a supertract in that year, the listed schemes.
AggExpectedTriples ==
    {<<supertracts_df[k].cbsa_id, supertracts_df[k].year, AggSchemes[j]>> :
        k \in {i \in 1..Len(supertracts_df) : supertracts_df[i].year \in agg_ret.year..2020},
        j \in 1..Len(AggSchemes)}

\* C11 (as claimed): process_all_years completes and returns exactly one record
\* for every (metro, year, scheme) of the range that has supertracts, also when
\* a year of the range has no supertract.
C11_OneRecordPerTriple ==
    agg_ret.op = "process_all_years" =>
        /\ agg_ret.status = "ok"
        /\ \A t \in AggExpectedTriples :
              Cardinality({n \in 1..Len(agg_ret.results) :
                              /\ agg_ret.results[n].cbsa_id = t[1]
                              /\ agg_ret.results[n].year = t[2]
                              /\ agg_ret.results[n].weighting_scheme = t[3]}) = 1
        /\ \A n \in 1..Len(agg_ret.results) :
              <<agg_ret.results[n].cbsa_id, agg_ret.results[n].year,
                agg_ret.results[n].weighting_scheme>> \in AggExpectedTriples

\* The schemes that read the weighting table, the year each is claimed to read
\* for target year y, and the column it sums.
TableSchemes == {"value", "unit", "upb", "college", "non_white"}
ClaimedYear(scheme, y) ==
    IF scheme = "value" THEN y - 1
    ELSE IF scheme \in {"unit", "upb"} THEN y
    ELSE 2010
ClaimedColumn(scheme) ==
    CASE scheme = "value" -> "total_housing_value"
      [] scheme = "unit" -> "total_housing_units"
      [] scheme = "upb" -> "total_upb"
      [] scheme = "college" -> "college_population"
      [] scheme = "non_white" -> "non_white_population"

\* The rows of the weighting table of the year the last call's scheme is
\* claimed to read.
ClaimedRows ==
    SelectSeq(weighting_data.rows,
              LAMBDA r : r.year = ClaimedYear(w_call.scheme_name, w_call.year))

\* The underlying quantity of supertract k in the last call: its half-pairs
\* count for sample, else the column summed over its component tracts in the
\* claimed year (a missing value adds nothing).
ClaimedQuantity(k) ==
    IF w_call.scheme_name = "sample" THEN supertract_data[k].half_pairs_count
    ELSE LET rows == SelectSeq(ClaimedRows,
                        LAMBDA r : /\ r.census_tract_2010 \in Range(supertract_data[k].component_tracts)
                                   /\ ClaimedColumn(w_call.scheme_name) \notin r.missing)
         IN SeqSum([j \in 1..Len(rows) |-> rows[j][ClaimedColumn(w_call.scheme_name)]])
ClaimedTotal == SeqSum([k \in 1..Len(supertract_data) |-> ClaimedQuantity(k)])

\* C12: when the underlying quantity sums to zero over the n supertracts in
\* scope, every supertract gets weight 1/n.
C12_ZeroSumEqualWeights ==
    (w_result.status = "ok" /\ ClaimedTotal = 0) =>
        /\ Len(w_result.weights) = Len(supertract_data)
        /\ \A k \in 1..Len(w_result.weights) :
              w_result.weights[k].weight = Rat(1, Len(supertract_data))

\* A table scheme over three supertracts whose table has rows, none of them
\* with a quantity in the year read.
C12_Witness ==
    /\ w_result.status = "ok"
    /\ w_call.scheme_name \in TableSchemes
    /\ weighting_data.rows # <<>>
    /\ ClaimedTotal = 0
    /\ Len(w_result.weights) = 3
    /\ w_result.weights[3].weight = Rat(1, 3)

\* C13: without a weighting table each of value, unit, upb, college and
\* non_white raises, and sample returns its weights.
C13_TableRequiredExceptSample ==
    (w_call.scheme_name # "none" /\ weighting_data.is_none) =>
        /\ w_call.scheme_name \in TableSchemes => w_result.status = "raise"
        /\ w_call.scheme_name = "sample" => w_result.status = "ok"

\* The value scheme was called without a table and raised.
C13_Witness ==
    /\ weighting_data.is_none
    /\ w_call.scheme_name = "value"
    /\ w_result.status = "raise"

\* C14: a table scheme's weights are the quantities of the claimed year (value:
\* year - 1, unit and upb: year, college and non_white: 2010) summed over the
\* component tracts, over their total; the rows of other years change nothing.
C14_ReadsPrescribedYearOnly ==
    (w_result.status = "ok" /\ w_call.scheme_name \in TableSchemes) =>
        /\ w_result = calculate_weights(w_call.scheme_name, supertract_data, w_call.year,
                                        Table(ClaimedRows))
        /\ ClaimedTotal # 0 =>
              \A k \in 1..Len(w_result.weights) :
                 w_result.weights[k].weight = Rat(ClaimedQuantity(k), ClaimedTotal)

\* The value scheme on a table with rows of the year before and of the target
\* year, returning unequal weights.
C14_Witness ==
    /\ w_result.status = "ok"
    /\ w_call.scheme_name = "value"
    /\ \E i, j \in 1..Len(weighting_data.rows) :
          /\ weighting_data.rows[i].year = w_call.year - 1
          /\ weighting_data.rows[j].year = w_call.year
          /\ weighting_data.rows[j].total_housing_value > 0
    /\ \E j, k \in 1..Len(w_result.weights) :
          w_result.weights[j].weight # w_result.weights[k].weight

\* One run of generate_supertracts_for_year on the current inputs in which the
\* scan always meets the lowest tract id first among equidistant candidates:
\* the cluster grown from `cluster`, and the second pass from `unproc` on.
RECURSIVE LowestFirstMerge(_, _)
LowestFirstMerge(cluster, processed) ==
    LET cbsa_sales == FilterCbsaSales(repeat_sales_df, cbsa_id)
        available == Range(CbsaTracts(geographic_df, cbsa_id)) \ processed
    IN IF \/ /\ calculate_half_pairs_multi(cbsa_sales, year, cluster) >= min_half_pairs
             /\ calculate_half_pairs_multi(cbsa_sales, year - 1, cluster) >= min_half_pairs
          \/ available = {}
       THEN cluster
       ELSE LET n == MinOf(NearestCandidates(geographic_df, cluster, available))
            IN LowestFirstMerge(Append(cluster, n), processed \cup {n})

RECURSIVE LowestFirstPass(_, _, _)
LowestFirstPass(unproc, processed, acc) ==
    IF unproc = <<>> THEN acc
    ELSE LET c == LowestFirstMerge(<<Head(unproc)>>, processed \cup {Head(unproc)})
         IN LowestFirstPass(SelectSeq(unproc, LAMBDA t : t \notin Range(c)),
                            processed \cup Range(c), Append(acc, c))

LowestFirstRun ==
    LET tract_list == CbsaTracts(geographic_df, cbsa_id)
        singles == FirstPass(FilterCbsaSales(repeat_sales_df, cbsa_id), year,
                             tract_list, min_half_pairs)
        done == {singles[k][1] : k \in 1..Len(singles)}
    IN LowestFirstPass(SelectSeq(tract_list, LAMBDA t : t \notin done), done, singles)

\* C15 (as claimed): every run of generate_supertracts_for_year on the same
\* inputs returns the same component lists in the same order, whatever order
\* the candidate set is iterated in: each run returns what the lowest-first
\* run returns.
C15_SameResultEveryRun ==
    (st_pc = "done" /\ distance_calc = "built") => supertracts = LowestFirstRun

\* The characters of '{metro}_{year}_ST{sequence:04d}' for a sequence number
\* below 10000.
ClaimedId(cbsa, y, sequence) ==
    <<cbsa, "_">> \o DecimalChars(y) \o
    <<"_", "S", "T", DigitChar(sequence \div 1000), DigitChar((sequence \div 100) % 10),
      DigitChar((sequence \div 10) % 10), DigitChar(sequence % 10)>>

\* Entry k of the dict is a singleton of the first pass.
EmittedByFirstPass(k) ==
    /\ Len(supertracts[k]) = 1
    /\ MeetsThreshold(FilterCbsaSales(repeat_sales_df, cbsa_id), year,
                      supertracts[k][1], min_half_pairs)

\* C16: within one (metro, year) the k-th supertract emitted has the id
\* '{metro}_{year}_ST{k-1:04d}', the threshold-meeting singletons coming before
\* the merged clusters, and the ids of all rows that generate_all_supertracts
\* has collected are pairwise distinct.
C16_ConsecutiveDistinctIds ==
    /\ st_pc \in {"outer", "inner", "done"} =>
          /\ Len(supertract_ids) = Len(emit_left)
          /\ Len(supertracts) = Len(emit_left)
          /\ \A k \in 1..Len(supertract_ids) :
                supertract_ids[k] = ClaimedId(cbsa_id, year, k - 1)
          /\ \A j, k \in 1..Len(supertracts) :
                (j < k /\ EmittedByFirstPass(k)) => EmittedByFirstPass(j)
    /\ \A i, j \in 1..Len(all_supertracts) :
          i # j => all_supertracts[i].supertract_id # all_supertracts[j].supertract_id

\* generate_all_supertracts has returned rows of two metros and of two years,
\* one of them the second supertract of its (metro, year).
C16_Witness ==
    /\ ga_pc = "done"
    /\ \E i, j \in 1..Len(all_supertracts) :
          all_supertracts[i].cbsa_id # all_supertracts[j].cbsa_id
    /\ \E i, j \in 1..Len(all_supertracts) :
          all_supertracts[i].year # all_supertracts[j].year
    /\ \E i \in 1..Len(all_supertracts) :
          all_supertracts[i].supertract_id =
              ClaimedId(all_supertracts[i].cbsa_id, all_supertracts[i].year, 1)

\* The call whose records are in agg_ret has returned them.
AggReturnedRecords ==
    /\ agg_ret.op \in {"aggregate_to_city_level", "process_all_years"}
    /\ agg_ret.status = "ok"

\* For a returned record: the appreciation rows of its metro and year, and the
\* outcome of calculate_weights for its (metro, year, scheme).
RecordRows(rec) ==
    SelectSeq(supertract_results[rec.year].rows, LAMBDA r : r.cbsa_id = rec.cbsa_id)

RecordWeights(rec) ==
    calculate_weights(rec.weighting_scheme,
                      SelectSeq(supertracts_df, LAMBDA r : r.cbsa_id = rec.cbsa_id
                                                          /\ r.year = rec.year),
                      rec.year, weighting_data)

\* The sum of weight * appreciation over the (weight, appreciation row) pairs
\* that carry the same supertract id.
SumOfProductsById(weights, rows) ==
    RatSeqSum([p \in 1..(Len(weights) * Len(rows)) |->
        LET w == weights[((p - 1) \div Len(rows)) + 1]
            r == rows[((p - 1) % Len(rows)) + 1]
        IN IF w.supertract_id = r.supertract_id
           THEN RatMul(w.weight, r.appreciation_rate) ELSE RatInt(0)])

\* C17: every returned record whose weights were computed carries the sum, over
\* the supertracts of its metro and year, of weight * appreciation paired by
\* supertract id.
C17_RateIsWeightedSumById ==
    AggReturnedRecords =>
        \A n \in 1..Len(agg_ret.results) :
            \A w \in {RecordWeights(agg_ret.results[n])} :
                w.status = "ok" =>
                    agg_ret.results[n].appreciation_rate =
                        SumOfProductsById(w.weights, RecordRows(agg_ret.results[n]))

\* A returned record over two supertracts with different weights, the second
\* with a non-zero appreciation rate.
C17_Witness ==
    /\ AggReturnedRecords
    /\ \E n \in 1..Len(agg_ret.results) :
          \E w \in {RecordWeights(agg_ret.results[n])} :
             /\ w.status = "ok"
             /\ Len(w.weights) = 2
             /\ w.weights[1].weight # w.weights[2].weight
             /\ \E k \in 1..Len(RecordRows(agg_ret.results[n])) :
                   /\ RecordRows(agg_ret.results[n])[k].supertract_id =
                          w.weights[2].supertract_id
                   /\ RecordRows(agg_ret.results[n])[k].appreciation_rate # RatInt(0)

\* C18: a series chained by a chainer whose configured base year is not among
\* its years starts, at its earliest year, with the base value, and every later
\* year is the previous year's index times exp(its rate).
C18_AbsentBaseYearAnchorsFirst ==
    \A key \in DOMAIN chained_indices :
        LET series == chained_indices[key]
        IN (/\ series # <<>>
            /\ ~ctor_base_year.is_none
            /\ ctor_base_year.value \notin SeriesYears(series)) =>
              /\ \A i \in 1..Len(series) : series[1].year <= series[i].year
              /\ series[1].index_value = RatInt(base_value)
              /\ \A i \in 2..Len(series) :
                    series[i].index_value =
                       RatMul(series[i - 1].index_value, Exp(series[i].appreciation_rate))

\* A stored series of two years around an absent configured base year, with a
\* non-zero rate in its last year.
C18_Witness ==
    \E key \in DOMAIN chained_indices :
        LET series == chained_indices[key]
        IN /\ ~ctor_base_year.is_none
           /\ Len(series) = 2
           /\ series[1].year < ctor_base_year.value
           /\ ctor_base_year.value < series[2].year
           /\ series[2].appreciation_rate # 0

\* The tracts of the metro that reach the threshold on their own in both years.
ScenarioMeeting ==
    {t \in Range(CbsaTracts(geographic_df, cbsa_id)) :
        /\ calculate_half_pairs(FilterCbsaSales(repeat_sales_df, cbsa_id), year, t)
              >= min_half_pairs
        /\ calculate_half_pairs(FilterCbsaSales(repeat_sales_df, cbsa_id), year - 1, t)
              >= min_half_pairs}

\* The scenario: a metro of 3 tracts with centroids, two of which reach the
\* threshold on their own, and generate_supertracts_for_year has returned.
ThreeTractScenario ==
    /\ st_pc = "done"
    /\ distance_calc = "built"
    /\ Len(CbsaTracts(geographic_df, cbsa_id)) = 3
    /\ Cardinality(ScenarioMeeting) = 2

\* C19 (as claimed): in the scenario the call returns exactly 2 singleton
\* supertracts and 1 two-tract merged supertract.
C19_TwoSingletonsOneMerged ==
    ThreeTractScenario =>
        /\ Cardinality({k \in 1..Len(supertracts) : Len(supertracts[k]) = 1}) = 2
        /\ Cardinality({k \in 1..Len(supertracts) : Len(supertracts[k]) = 2}) = 1
        /\ Len(supertracts) = 3

\* C19 (amended): in the scenario the call returns exactly 3 singleton
\* supertracts: the two tracts that reach the threshold, in row order, and then
\* the tract below it on its own, no unprocessed tract being left to merge with.
C19_ThreeSingletons ==
    ThreeTractScenario =>
        /\ Len(supertracts) = 3
        /\ \A k \in 1..3 : Len(supertracts[k]) = 1
        /\ {supertracts[1][1], supertracts[2][1]} = ScenarioMeeting
        /\ supertracts[1][1] < supertracts[2][1]
        /\ supertracts[3][1] \notin ScenarioMeeting
        /\ emit_left[3] = {}

\* The scenario with a below-threshold tract that has half-pairs in the target
\* year and is not the last row of the tract table.
C19_Witness ==
    /\ ThreeTractScenario
    /\ \E t \in Range(CbsaTracts(geographic_df, cbsa_id)) \ ScenarioMeeting :
          /\ calculate_half_pairs(FilterCbsaSales(repeat_sales_df, cbsa_id), year, t) > 0
          /\ \E u \in ScenarioMeeting : t < u

\* The shared table reduced to the pairs of the given component tracts, as a
\* table of its own.
OwnPairsOnly(df, component_tracts) ==
    WithLabels(FilterTracts(df, Range(component_tracts)))

\* C20 (as claimed): the rate calculate_supertract_appreciation reports for a
\* supertract is a rate the regression yields on the supertract's own pairs
\* alone, the pairs of all other tracts removed from the table.
C20_OwnPairsDecideRate ==
    (agg_ret.op = "calculate_supertract_appreciation" /\ agg_ret.status = "ok") =>
        \A defs \in {YearData(supertracts_df, agg_ret.year)} :
            \A k \in 1..Len(agg_ret.results) :
                agg_ret.results[k].appreciation_rate \in
                    {ret.appreciation_rate :
                        ret \in run_bmn_for_supertract(
                                    OwnPairsOnly(repeat_sales_df, defs[k].component_tracts),
                                    Range(defs[k].component_tracts), agg_ret.year)}

\* C21 (as claimed): whenever the index holds a tract other than the query tract
\* that is not excluded, get_nearest_neighbor returns a tract that is neither
\* the query tract nor excluded.
C21_ReturnsValidNeighbor ==
    (/\ nn_ret.op = "get_nearest_neighbor"
     /\ nn_ret.tract_id \in DOMAIN geographic_df
     /\ \E t \in DOMAIN geographic_df :
           t # nn_ret.tract_id /\ t \notin nn_ret.exclude_tracts) =>
        /\ nn_ret.status = "ok"
        /\ nn_ret.neighbor_tract \in DOMAIN geographic_df
        /\ nn_ret.neighbor_tract # nn_ret.tract_id
        /\ nn_ret.neighbor_tract \notin nn_ret.exclude_tracts

\* The step appends a tract to the cluster of the merge loop.
MergesATract ==
    /\ st_pc = "inner"
    /\ Len(current_supertract') = Len(current_supertract) + 1

\* C22: the tract a merge step appends is an unprocessed tract of the metro, and
\* its distance to some cluster member is the minimum of the distance over all
\* (cluster member, unprocessed tract of the metro) pairs.
C22_MergedTractIsNearest ==
    [][MergesATract =>
         \E merged \in {current_supertract'[Len(current_supertract')]} :
            /\ merged \in DOMAIN geographic_df
            /\ geographic_df[merged].cbsa_id = cbsa_id
            /\ merged \notin processed_tracts
            /\ \E i \in 1..Len(current_supertract) :
                  \A j \in 1..Len(current_supertract) :
                     \A c \in {t \in DOMAIN geographic_df :
                                  /\ geographic_df[t].cbsa_id = cbsa_id
                                  /\ t \notin processed_tracts} :
                        haversine_distance(0, geographic_df[current_supertract[i]].centroid_lon,
                                           0, geographic_df[merged].centroid_lon)
                          <= haversine_distance(0, geographic_df[current_supertract[j]].centroid_lon,
                                                0, geographic_df[c].centroid_lon)]_vars

\* A cluster of three whose third tract was merged because it is nearer to the
\* second member than to the first, and nearer than the tract still available.
C22_Witness ==
    /\ st_pc = "inner"
    /\ Len(current_supertract) = 3
    /\ merge_steps = 2
    /\ supertracts = <<>>
    /\ \E other \in DOMAIN geographic_df \ processed_tracts :
          LET lon(t) == geographic_df[t].centroid_lon
              a == current_supertract[1]
              b == current_supertract[2]
              c == current_supertract[3]
          IN /\ Abs(lon(b) - lon(c)) < Abs(lon(a) - lon(c))
             /\ Abs(lon(b) - lon(c)) < Abs(lon(b) - lon(other))
             /\ Abs(lon(b) - lon(c)) < Abs(lon(a) - lon(other))

\* C23: once the first pass is over, every tract that meets the threshold on its
\* own in both years is a supertract by itself: it is in no other supertract
\* and not in the cluster being merged.
C23_MeetingTractStaysSingleton ==
    st_pc \in {"outer", "inner", "done"} =>
        \A t \in ScenarioMeeting :
            /\ \E k \in 1..Len(supertracts) : supertracts[k] = <<t>>
            /\ \A k \in 1..Len(supertracts) :
                  t \in Range(supertracts[k]) => supertracts[k] = <<t>>
            /\ st_pc = "inner" => t \notin Range(current_supertract)

\* A finished call with a singleton that meets the threshold next to a merged
\* cluster of two that stays below it.
C23_Witness ==
    /\ st_pc = "done"
    /\ ScenarioMeeting # {}
    /\ \E k \in 1..Len(supertracts) :
          /\ Len(supertracts[k]) = 2
          /\ \/ calculate_half_pairs_multi(FilterCbsaSales(repeat_sales_df, cbsa_id),
                                            year, supertracts[k]) < min_half_pairs
             \/ calculate_half_pairs_multi(FilterCbsaSales(repeat_sales_df, cbsa_id),
                                            year - 1, supertracts[k]) < min_half_pairs

\* The last call was a prepare_regression_data that returned.
PrepareReturned ==
    bmn_last.op = "prepare_regression_data" /\ bmn_last.status = "ok"

\* The table of the last call carries the default labels 0..n-1.
PrepareDefaultLabels ==
    \A k \in 1..Len(bmn_last.df) : bmn_last.df[k].label = k

\* Pair k of the last call lies within the year range of the call.
PairInRange(k) ==
    /\ bmn_last.df[k].first_year >= bmn_last.years[1]
    /\ bmn_last.df[k].second_year <= bmn_last.years[Len(bmn_last.years)]

\* The entry claimed for a pair in the column of year y: -1 for the first-sale
\* year plus +1 for the second-sale year.
ClaimedEntry(pair, y) ==
    (IF pair.second_year = y THEN 1 ELSE 0) - (IF pair.first_year = y THEN 1 ELSE 0)

\* C24 (as claimed): the design matrix has one column per non-base year, and
\* the row of every in-range pair, a pair sold twice in one non-base year
\* included, holds -1 for the first-sale year, +1 for the second-sale year and
\* 0 elsewhere.
C24_DesignRowEncodesBothSales ==
    (PrepareReturned /\ PrepareDefaultLabels) =>
        \A k \in 1..Len(bmn_last.df) :
            /\ Len(bmn_last.X[k]) = Len(bmn_last.years) - 1
            /\ PairInRange(k) =>
                  \A c \in 1..(Len(bmn_last.years) - 1) :
                      bmn_last.X[k][c] = ClaimedEntry(bmn_last.df[k], bmn_last.years[c + 1])

\* C25 (as claimed): a call whose table holds pairs outside the year range
\* returns, and the design matrix and the response vector hold one observation
\* for each in-range pair and none for the others.
C25_OutOfRangePairsExcluded ==
    (/\ bmn_last.op = "prepare_regression_data"
     /\ PrepareDefaultLabels
     /\ ~bmn_last.start_year.is_none /\ ~bmn_last.end_year.is_none) =>
        /\ bmn_last.status = "ok"
        /\ \E n \in {Cardinality({k \in 1..Len(bmn_last.df) : PairInRange(k)})} :
              Len(bmn_last.y) = n /\ Len(bmn_last.X) = n

\* The lists of distinct tracts.
DistinctTractLists ==
    {l \in UNION {[1..n -> Tracts] : n \in 0..NumTracts} :
        \A i, j \in 1..Len(l) : i # j => l[i] # l[j]}

\* The pairs of the sales table in a tract with the given first-sale year, and
\* with the given second-sale year.
FirstSalesIn(y, tract) ==
    {k \in 1..Len(repeat_sales_df) : /\ repeat_sales_df[k].census_tract_2010 = tract
                                      /\ repeat_sales_df[k].first_year = y}

SecondSalesIn(y, tract) ==
    {k \in 1..Len(repeat_sales_df) : /\ repeat_sales_df[k].census_tract_2010 = tract
                                      /\ repeat_sales_df[k].second_year = y}

\* C26: the half-pairs of a tract in a year are its pairs first sold in the year
\* plus its pairs sold again in the year, and the half-pairs of a list of
\* distinct tracts are the sum of the half-pairs of its tracts.
C26_HalfPairsCountAndAdd ==
    \A y \in 2019..2020 :
        /\ \A t \in Tracts :
              calculate_half_pairs(repeat_sales_df, y, t) =
                  Cardinality(FirstSalesIn(y, t)) + Cardinality(SecondSalesIn(y, t))
        /\ \A l \in DistinctTractLists :
              calculate_half_pairs_multi(repeat_sales_df, y, l) =
                  SeqSum([i \in 1..Len(l) |-> calculate_half_pairs(repeat_sales_df, y, l[i])])

\* A finished call with a merged supertract, one of whose tracts has a pair
\* sold twice in the target year and another has half-pairs of its own.
C26_Witness ==
    /\ st_pc = "done"
    /\ \E k \in 1..Len(supertracts) :
          \E i, j \in 1..Len(supertracts[k]) :
             /\ i # j
             /\ FirstSalesIn(year, supertracts[k][i]) \cap SecondSalesIn(year, supertracts[k][i]) # {}
             /\ calculate_half_pairs(repeat_sales_df, year, supertracts[k][j]) > 0

\* The tracts of the metro that do not reach the threshold on their own.
ScenarioBelow == Range(CbsaTracts(geographic_df, cbsa_id)) \ ScenarioMeeting

\* C27: on a generator without a distance calculator, a call in which a tract
\* below the threshold has another unprocessed tract to merge with ends with an
\* error, and any other call returns; the half-pair counts of the first pass
\* are taken either way, its singletons being emitted before the failure.
C27_MergeWithoutIndexFails ==
    (distance_calc = "none" /\ st_pc \in {"done", "raised"}) =>
        /\ st_pc = "raised" <=> Cardinality(ScenarioBelow) >= 2
        /\ \A t \in ScenarioMeeting : \E k \in 1..Len(supertracts) : supertracts[k] = <<t>>

\* A failed call on a table without centroids, after the first pass emitted a
\* singleton.
C27_Witness ==
    /\ distance_calc = "none"
    /\ st_pc = "raised"
    /\ supertracts # <<>>

\* A pass of the inner merge loop emits the cluster, moves one tract from
\* unprocessed to processed, or ends the call with an error.
InnerPassOutcome ==
    \/ /\ Len(emit_left') = Len(emit_left) + 1
       /\ processed_tracts' = processed_tracts
       /\ unprocessed' = unprocessed
    \/ /\ Cardinality(processed_tracts') = Cardinality(processed_tracts) + 1
       /\ Len(unprocessed') = Len(unprocessed) - 1
       /\ processed_tracts' \ processed_tracts = Range(unprocessed) \ Range(unprocessed')
       /\ merge_steps' = merge_steps + 1
    \/ st_pc' = "raised"

\* C28: every call of generate_supertracts_for_year ends; it performs at most as
\* many merge steps as the metro has tracts; every pass of the inner loop emits
\* the cluster or moves one tract from unprocessed to processed (or fails); and
\* after the first pass no tract leaves processed or returns to unprocessed.
C28_TerminatesWithinTractCount ==
    /\ <>(st_pc \in {"done", "raised"})
    /\ [](merge_steps <= Len(CbsaTracts(geographic_df, cbsa_id)))
    /\ [][st_pc = "inner" => InnerPassOutcome]_vars
    /\ [][st_pc # "start" => /\ processed_tracts \subseteq processed_tracts'
                             /\ Range(unprocessed') \subseteq Range(unprocessed)]_vars

\* A finished call that merged all three tracts of the metro into one cluster.
C28_Witness ==
    /\ st_pc = "done"
    /\ merge_steps = 2
    /\ Len(supertracts) = 1

\* C29 (as claimed): whatever the row labels of the table, a call of
\* prepare_regression_data that succeeds on the same rows labelled 0..n-1
\* succeeds, and row k of its design matrix is the row of pair k, the pair
\* whose log price relative is entry k of the response vector.
C29_RowsAlignedForAnyLabels ==
    bmn_last.op = "prepare_regression_data" =>
        \A relabelled \in {prepare_regression_data(WithLabels(bmn_last.df),
                                                    bmn_last.start_year, bmn_last.end_year)} :
            relabelled.status = "ok" =>
                /\ bmn_last.status = "ok"
                /\ Len(bmn_last.X) = Len(bmn_last.df)
                /\ \A k \in 1..Len(bmn_last.df) :
                      /\ bmn_last.X[k] = relabelled.X[k]
                      /\ bmn_last.y[k] = bmn_last.df[k].log_price_relative

\* C30 (as claimed): on one BMNRegression object, after any calls, stored
\* results belong to the stored year range: there is one coefficient for each
\* time period but the first, and base_period is the first time period; while
\* no results are stored, get_coefficient_for_year raises for every year.
C30_ResultsMatchStoredPeriods ==
    /\ ~results.is_none =>
          /\ ~time_periods.is_none
          /\ Len(results.params) = Len(time_periods.years) - 1
          /\ ~base_period.is_none
          /\ base_period.value = time_periods.years[1]
    /\ results.is_none =>
          \A y \in BMNYears : get_coefficient_for_year(BMNObject, y).status = "raise"
====
